---- MODULE Spec2Model ----
(***************************************************************************)
(* A model of the Color-Template-Library conversion engine: channels,      *)
(* colour casts, RGB<->HSV/HSL/HSI conversions, lerp, normalize and alpha  *)
(* blending.                                                               *)
(*                                                                         *)
(* The library computes in C++ float (IEEE-754 binary32) and double        *)
(* (binary64).  Both are modelled bit-exactly for finite normal values:    *)
(* a value is an exact dyadic rational  s * m * 2^e  whose mantissa m is   *)
(* a multi-precision natural, and every C++ arithmetic operation is the    *)
(* exact operation followed by round-to-nearest-even to 24 or 53 bits.     *)
(* Subnormals, infinities and NaN are outside the modelled domain.         *)
(***************************************************************************)
EXTENDS Integers, Sequences, FiniteSets, TLC

(***************************************************************************)
(* Multi-precision naturals: little-endian sequences of 14-bit limbs with  *)
(* no leading zero limb; <<>> is 0.                                        *)
(***************************************************************************)
Base == 2^14

RECURSIVE BFromInt(_)
BFromInt(n) == IF n = 0 THEN <<>> ELSE <<n % Base>> \o BFromInt(n \div Base)

RECURSIVE BToInt(_)
BToInt(a) == IF a = <<>> THEN 0 ELSE Head(a) + Base * BToInt(Tail(a))

RECURSIVE BTrim(_)
BTrim(a) ==
    IF a = <<>> THEN a
    ELSE IF a[Len(a)] = 0 THEN BTrim(SubSeq(a, 1, Len(a) - 1)) ELSE a

RECURSIVE BAddC(_, _, _)
BAddC(a, b, c) ==
    IF a = <<>> /\ b = <<>> THEN (IF c = 0 THEN <<>> ELSE <<c>>)
    ELSE LET x == IF a = <<>> THEN 0 ELSE Head(a)
             y == IF b = <<>> THEN 0 ELSE Head(b)
             s == x + y + c
         IN  <<s % Base>> \o BAddC(IF a = <<>> THEN a ELSE Tail(a),
                                   IF b = <<>> THEN b ELSE Tail(b),
                                   s \div Base)

BAdd(a, b) == BAddC(a, b, 0)

\* a - b - c for a >= b + c, before trimming.
RECURSIVE BSubC(_, _, _)
BSubC(a, b, c) ==
    IF a = <<>> THEN <<>>
    ELSE LET y == IF b = <<>> THEN 0 ELSE Head(b)
             d == Head(a) - y - c
         IN  <<(d + Base) % Base>> \o BSubC(Tail(a),
                                            IF b = <<>> THEN b ELSE Tail(b),
                                            IF d < 0 THEN 1 ELSE 0)

BSub(a, b) == BTrim(BSubC(a, b, 0))

RECURSIVE BCmpAt(_, _, _)
BCmpAt(a, b, i) ==
    IF i = 0 THEN 0
    ELSE IF a[i] > b[i] THEN 1
    ELSE IF a[i] < b[i] THEN -1
    ELSE BCmpAt(a, b, i - 1)

\* -1, 0 or 1 as a < b, a = b, a > b.
BCmp(a, b) ==
    IF Len(a) > Len(b) THEN 1
    ELSE IF Len(a) < Len(b) THEN -1
    ELSE BCmpAt(a, b, Len(a))

\* a * k + c for 0 <= k, c < Base.
RECURSIVE BMulSmall(_, _, _)
BMulSmall(a, k, c) ==
    IF a = <<>> THEN (IF c = 0 THEN <<>> ELSE <<c>>)
    ELSE LET p == Head(a) * k + c
         IN  <<p % Base>> \o BMulSmall(Tail(a), k, p \div Base)

RECURSIVE BMul(_, _)
BMul(a, b) ==
    IF a = <<>> \/ b = <<>> THEN <<>>
    ELSE BTrim(BAdd(BMulSmall(b, Head(a), 0),
                    IF Tail(a) = <<>> THEN <<>>
                    ELSE <<0>> \o BMul(Tail(a), b)))

BShl(a, n) ==
    IF a = <<>> THEN a
    ELSE [i \in 1..(n \div 14) |-> 0] \o BMulSmall(a, 2^(n % 14), 0)

\* The limbs t shifted right by r < 14 bits.
BShrLimbs(t, r) ==
    BTrim([i \in 1..Len(t) |->
              (t[i] \div 2^r) +
              (IF i < Len(t) THEN (t[i + 1] % 2^r) * 2^(14 - r) ELSE 0)])

BShr(a, n) ==
    BShrLimbs(IF n \div 14 >= Len(a) THEN <<>> ELSE SubSeq(a, n \div 14 + 1, Len(a)),
              n % 14)

RECURSIVE IBitLen(_)
IBitLen(n) == IF n = 0 THEN 0 ELSE 1 + IBitLen(n \div 2)

BBitLen(a) == IF a = <<>> THEN 0 ELSE 14 * (Len(a) - 1) + IBitLen(a[Len(a)])

\* Bit i (bit 0 is the least significant) of a.
BBit(a, i) ==
    IF i \div 14 + 1 > Len(a) THEN 0 ELSE (a[i \div 14 + 1] \div 2^(i % 14)) % 2

RECURSIVE ITrailZeros(_)
ITrailZeros(n) == IF n % 2 = 1 THEN 0 ELSE 1 + ITrailZeros(n \div 2)

\* The number of trailing zero bits of a > 0.
RECURSIVE BTrailZeros(_)
BTrailZeros(a) ==
    IF Head(a) = 0 THEN 14 + BTrailZeros(Tail(a)) ELSE ITrailZeros(Head(a))

\* One step of long division: q is the quotient so far, r2 the remainder
\* with the next bit brought down, ge whether b goes into r2.
BDivSel(q, r2, b, ge) ==
    <<BMulSmall(q, 2, IF ge THEN 1 ELSE 0), IF ge THEN BSub(r2, b) ELSE r2>>

BDivPick(q, r2, b) == BDivSel(q, r2, b, BCmp(r2, b) >= 0)

\* Bring down bit i of a.  st = <<q, r>> is the quotient and the remainder
\* so far.
BDivBit(a, b, i, st) ==
    IF Len(st) = 2 THEN BDivPick(st[1], BMulSmall(st[2], 2, BBit(a, i)), b) ELSE st

\* Bring down the n bits i-1 .. i-n of a, four bits to a level.
RECURSIVE BDivBits(_, _, _, _, _)
BDivBits(a, b, i, n, st) ==
    IF Len(st) # 2 \/ n = 0 THEN st
    ELSE BDivBits(a, b, IF n < 4 THEN i - 1 ELSE i - 4, IF n < 4 THEN n - 1 ELSE n - 4,
                  IF n < 4 THEN BDivBit(a, b, i - 1, st)
                  ELSE BDivBit(a, b, i - 4, BDivBit(a, b, i - 3,
                           BDivBit(a, b, i - 2, BDivBit(a, b, i - 1, st)))))

\* Long division of the bits i-1..0 of a, sixteen bits to a level.
RECURSIVE BDivStep(_, _, _, _)
BDivStep(a, b, i, st) ==
    IF Len(st) # 2 \/ i = 0 THEN st
    ELSE BDivStep(a, b, IF i < 16 THEN 0 ELSE i - 16,
                  BDivBits(a, b, i, IF i < 16 THEN i ELSE 16, st))

\* Long division of the low n bits of a, the bits above them being the
\* first remainder.
BDivLow(a, b, n) == BDivStep(a, b, n, <<<<>>, BShr(a, n)>>)

\* The number of bits of a to divide one by one: the leading bits of a that
\* are fewer than those of b are less than b.
BDivCount(la, lb) == la - (IF la >= lb THEN lb - 1 ELSE la)

\* <<a div b, a mod b>> for b > 0.
BDivMod(a, b) == BDivLow(a, b, BDivCount(BBitLen(a), BBitLen(b)))

(***************************************************************************)
(* Exact dyadic rationals  s * m * 2^e,  s in {1,-1}, m odd or zero.       *)
(***************************************************************************)
DZero == [s |-> 1, m |-> <<>>, e |-> 0]

\* s * m * 2^e for m with t trailing zero bits.
DMkOdd(s, m, e, t) == [s |-> s, m |-> BShr(m, t), e |-> e + t]

DMk(s, m, e) == IF m = <<>> THEN DZero ELSE DMkOdd(s, m, e, BTrailZeros(m))

DInt(n) == DMk(IF n < 0 THEN -1 ELSE 1, BFromInt(IF n < 0 THEN -n ELSE n), 0)

DNeg(x) == IF x.m = <<>> THEN x ELSE [x EXCEPT !.s = -x.s]

DAbs(x) == [x EXCEPT !.s = 1]

\* The smaller exponent.
DLowExp(x, y) == IF x.e < y.e THEN x.e ELSE y.e

\* The mantissa of x at the exponent lo <= x.e.
DAlign(x, lo) == BShl(x.m, x.e - lo)

\* Compare magnitudes of nonzero x and y whose top bits are tx and ty.
DCmpTop(x, y, tx, ty, lo) ==
    IF tx > ty THEN 1
    ELSE IF tx < ty THEN -1
    ELSE BCmp(DAlign(x, lo), DAlign(y, lo))

\* Compare magnitudes.
DCmpMag(x, y) ==
    IF x.m = <<>> THEN (IF y.m = <<>> THEN 0 ELSE -1)
    ELSE IF y.m = <<>> THEN 1
    ELSE DCmpTop(x, y, x.e + BBitLen(x.m), y.e + BBitLen(y.m), DLowExp(x, y))

DCmp(x, y) == IF x.s = y.s THEN x.s * DCmpMag(x, y) ELSE x.s

DLt(x, y) == DCmp(x, y) < 0
DLe(x, y) == DCmp(x, y) <= 0

\* The sum of nonzero x and y of opposite signs, with mantissas a and b at
\* the exponent lo; ge is a >= b.
DAddDiff(x, y, a, b, lo, ge) ==
    DMk(IF ge THEN x.s ELSE y.s, IF ge THEN BSub(a, b) ELSE BSub(b, a), lo)

\* The sum of nonzero x and y, with mantissas a and b at the exponent lo.
DAddAligned(x, y, a, b, lo) ==
    IF x.s = y.s THEN DMk(x.s, BAdd(a, b), lo)
    ELSE DAddDiff(x, y, a, b, lo, BCmp(a, b) >= 0)

DAddAt(x, y, lo) == DAddAligned(x, y, DAlign(x, lo), DAlign(y, lo), lo)

DAdd(x, y) ==
    IF x.m = <<>> THEN y
    ELSE IF y.m = <<>> THEN x
    ELSE DAddAt(x, y, DLowExp(x, y))

DSub(x, y) == DAdd(x, DNeg(y))

DMul(x, y) == DMk(x.s * y.s, BMul(x.m, y.m), x.e + y.e)

\* x with its sh > 0 low bits rounded away; q is the mantissa without them.
\* The mantissa is odd, so the low bits are a tie only when sh = 1.
DRoundUp(x, sh, q) ==
    DMk(x.s,
        IF (IF sh = 1 THEN BBit(q, 0) ELSE BBit(x.m, sh - 1)) = 1
        THEN BAdd(q, <<1>>) ELSE q,
        x.e + sh)

DRoundBits(x, sh) == IF sh <= 0 THEN x ELSE DRoundUp(x, sh, BShr(x.m, sh))

\* Round to nearest, ties to even, keeping p significant bits.
DRound(p, x) == IF x.m = <<>> THEN x ELSE DRoundBits(x, BBitLen(x.m) - p)

\* The quotient of x and y from qr = <<q, r>>, the integer quotient and
\* remainder of x.m * 2^k by y.m: a sticky bit is appended to q.
DDivSticky(p, x, y, k, qr) ==
    DRound(p, DMk(x.s * y.s,
                  BMulSmall(qr[1], 2, IF qr[2] = <<>> THEN 0 ELSE 1),
                  x.e - y.e - k - 1))

DDivShift(p, x, y, k) == DDivSticky(p, x, y, k, BDivMod(BShl(x.m, k), y.m))

\* The shift that gives the integer quotient at least p + 2 bits.
DDivBits(p, lx, ly) == IF p + 2 + ly - lx > 0 THEN p + 2 + ly - lx ELSE 0

\* The quotient x / y rounded to p significant bits (y # 0).
DDivR(p, x, y) ==
    IF x.m = <<>> THEN DZero
    ELSE DDivShift(p, x, y, DDivBits(p, BBitLen(x.m), BBitLen(y.m)))

\* Truncation toward zero to an integer (a conversion to an integral type).
DTrunc(x) ==
    x.s * BToInt(IF x.e >= 0 THEN BShl(x.m, x.e) ELSE BShr(x.m, -x.e))

(***************************************************************************)
(* C++ arithmetic.  An operation on operands of precision p (24: float,    *)
(* 53: double) is the exact operation rounded to p bits; a mixed           *)
(* float/double expression is computed in double, as the usual arithmetic  *)
(* conversions prescribe.                                                  *)
(***************************************************************************)
\* A result that is not a finite number; it propagates through arithmetic.
NaN == [s |-> 0, m |-> <<>>, e |-> 0]

RAdd(p, x, y) == IF x.s = 0 \/ y.s = 0 THEN NaN ELSE DRound(p, DAdd(x, y))
RSub(p, x, y) == IF x.s = 0 \/ y.s = 0 THEN NaN ELSE DRound(p, DSub(x, y))
RMul(p, x, y) == IF x.s = 0 \/ y.s = 0 THEN NaN ELSE DRound(p, DMul(x, y))
RDiv(p, x, y) == IF x.s = 0 \/ y.m = <<>> THEN NaN ELSE DDivR(p, x, y)

ToFloat(x) == DRound(24, x)

FAdd(x, y) == RAdd(24, x, y)
FSub(x, y) == RSub(24, x, y)
FMul(x, y) == RMul(24, x, y)
FDiv(x, y) == RDiv(24, x, y)

DblAdd(x, y) == RAdd(53, x, y)
DblSub(x, y) == RSub(53, x, y)
DblMul(x, y) == RMul(53, x, y)
DblDiv(x, y) == RDiv(53, x, y)

\* std::min(a, b) and std::max(a, b).
DMin(a, b) == IF DLt(b, a) THEN b ELSE a
DMax(a, b) == IF DLt(a, b) THEN b ELSE a

\* std::fmod(x, y): x - trunc(x / y) * y, exact, with the sign of x.
\* DFmodAt: the mantissas at the common exponent lo.
DFmodAt(x, y, lo) == DMk(x.s, BDivMod(DAlign(x, lo), DAlign(y, lo))[2], lo)

DFmod(x, y) == IF x.m = <<>> THEN DZero ELSE DFmodAt(x, y, DLowExp(x, y))

\* The double literal n / d of the source text (n, d exact integers).
DblLit(n, d) == DblDiv(DInt(n), DInt(d))
\* The same literal converted to float: T(n / d).
FloatLit(n, d) == ToFloat(DblLit(n, d))

One == DInt(1)
Half == DblLit(1, 2)

\* const auto EPSILON = T(1e-10), T = float.
EPSILON == ToFloat(DblDiv(One, DMul(DInt(100000), DInt(100000))))

\* static constexpr T FLOAT_EPSILON = 1e-5, T = float.
FLOAT_EPSILON == FloatLit(1, 100000)

(***************************************************************************)
(* Channels.  An integer channel of w bits holds 0 .. 2^w - 1.             *)
(***************************************************************************)
\* BoundedChannelImpl<integral>::max_value / end_point.
BoundedMaxValue(w) == 2^w - 1
BoundedEndPoint(w) == BoundedMaxValue(w)

\* PeriodicChannelImpl<integral>::max_value / end_point / center_value.
PeriodicIntMaxValue(w) == 2^w - 1
PeriodicIntEndPoint(w) == PeriodicIntMaxValue(w) + 1
PeriodicIntCenterValue(w) == PeriodicIntEndPoint(w) \div 2

\* The operator ~ on the low n bits of v: every bit is flipped.
RECURSIVE BitNot(_, _)
BitNot(v, n) == IF n = 0 THEN 0 ELSE (1 - (v % 2)) + 2 * BitNot(v \div 2, n - 1)

\* A variant of the integral inverse that negates the value instead of
\* complementing it.
inverse_bounded_int_negate(value, w) == ((2^w) - value) % (2^w)

\* BoundedChannelImpl<integral>::inverse: ~value, converted to T (w bits).
inverse_bounded_int(value, w) == BitNot(value, w)

\* A variant of the periodic inverse that adds the centre of a bounded
\* channel, max_value() >> 1.
inverse_periodic_int_bounded_center(value, w) == (value + (BoundedMaxValue(w) \div 2)) % (2^w)

\* PeriodicChannelImpl<integral>::inverse: T out = value + center_value(), the
\* sum converted to T; the test out < 0 is for signed T.
inverse_periodic_int(value, w) ==
    LET out == (value + PeriodicIntCenterValue(w)) % (2^w)
    IN  IF out < 0 THEN (value - PeriodicIntCenterValue(w)) % (2^w) ELSE out

\* Rgb<T>::inverse and CylindricalColor::inverse, integral T of w bits.
rgb_inverse_int(c, w) == [i \in 1..3 |-> inverse_bounded_int(c[i], w)]
cyl_inverse_int(c, w) ==
    <<inverse_periodic_int(c[1], w), inverse_bounded_int(c[2], w), inverse_bounded_int(c[3], w)>>

\* PeriodicChannelImpl<float>::max_value: T(1.0 - epsilon()), epsilon = 2^-23.
PeriodicMaxValue == ToFloat(DblSub(One, [s |-> 1, m |-> <<1>>, e |-> -23]))

\* ChannelBase::clamp.
clamp(value, min, max) ==
    IF DLt(value, min) THEN min
    ELSE IF DLt(max, value) THEN max
    ELSE value

\* BoundedChannelImpl<float>::normalize.
NormalizeBounded(value) == clamp(value, DZero, One)

\* PeriodicChannelImpl<float>::normalize.
NormalizePeriodic(value) ==
    IF value.m = <<>> THEN value
    ELSE LET val == DFmod(value, One)
         IN  IF DLt(val, DZero) THEN FAdd(PeriodicMaxValue, val) ELSE val

\* details::lerp_flat for a float channel; p is the precision of Pos.
lerp_flat(start, end, pos, p) ==
    LET inv_pos == RSub(p, One, pos)
    IN  ToFloat(RAdd(p, RMul(p, inv_pos, start), RMul(p, pos, end)))

\* details::lerp_flat for an integer channel: the sum is converted to T.
lerp_flat_int(start, end, pos, p) ==
    LET inv_pos == RSub(p, One, pos)
    IN  DTrunc(RAdd(p, RMul(p, inv_pos, DInt(start)), RMul(p, pos, DInt(end))))

\* details::lerp_cyclic (float hue).
lerp_cyclic(start, end, pos, p) ==
    LET forward_len == DAbs(FSub(end, start))
        center == Half
    IN  IF DLt(center, forward_len)
        THEN LET max_val == PeriodicMaxValue
                 inv_pos == RSub(p, One, pos)
                 out == IF DLt(end, start)
                        THEN ToFloat(RAdd(p, RMul(p, start, inv_pos),
                                             RMul(p, FAdd(end, max_val), pos)))
                        ELSE ToFloat(RAdd(p, RMul(p, FAdd(start, max_val), inv_pos),
                                             RMul(p, end, pos)))
             IN  IF DLe(max_val, out) THEN FSub(out, max_val) ELSE out
        ELSE lerp_flat(start, end, pos, p)

\* A variant of lerp_cyclic_int that never wraps.
lerp_cyclic_int_flat(start, end, pos, p, w) == lerp_flat_int(start, end, pos, p)

\* A variant of lerp_cyclic_int that also wraps when the distance equals
\* center_value: the test is forward_len >= center.
lerp_cyclic_int_wrap_tie(start, end, pos, p, w) ==
    LET forward_len == IF end >= start THEN end - start ELSE start - end
        max_val == PeriodicIntMaxValue(w)
    IN  IF forward_len >= PeriodicIntCenterValue(w)
        THEN IF start > end
             THEN LET out == RAdd(p, DInt(start), RMul(p, DInt(max_val - start + end), pos))
                  IN  DTrunc(IF DLe(DInt(max_val), out) THEN RSub(p, out, DInt(max_val)) ELSE out)
             ELSE LET out == RSub(p, DInt(start), RMul(p, DInt(max_val - end + start), pos))
                  IN  DTrunc(IF DLt(out, DZero) THEN RAdd(p, out, DInt(max_val)) ELSE out)
        ELSE lerp_flat_int(start, end, pos, p)

\* details::lerp_cyclic_int (integer hue of w bits).
lerp_cyclic_int(start, end, pos, p, w) ==
    LET forward_len == IF end >= start THEN end - start ELSE start - end
        center == PeriodicIntCenterValue(w)
    IN  IF forward_len > center
        THEN LET max_val == PeriodicIntMaxValue(w)
             IN  IF start > end
                 THEN LET right == max_val - start
                          left == end
                          len == right + left
                          out == RAdd(p, DInt(start), RMul(p, DInt(len), pos))
                      IN  DTrunc(IF DLe(DInt(max_val), out)
                                 THEN RSub(p, out, DInt(max_val)) ELSE out)
                 ELSE LET right == max_val - end
                          left == start
                          len == right + left
                          out == RSub(p, DInt(start), RMul(p, DInt(len), pos))
                      IN  DTrunc(IF DLt(out, DZero)
                                 THEN RAdd(p, out, DInt(max_val)) ELSE out)
        ELSE lerp_flat_int(start, end, pos, p)

(***************************************************************************)
(* color_cast.  A colour is a triple of channel values; kinds names the    *)
(* channel type of each position: "b" bounded, "p" periodic.               *)
(***************************************************************************)
RgbKinds == <<"b", "b", "b">>
CylKinds == <<"p", "b", "b">>

\* ChanType<integral>::end_point().
EndPoint(kind, w) == IF kind = "p" THEN PeriodicIntEndPoint(w) ELSE BoundedEndPoint(w)

\* tuple_transform_functor, integral From and To: scaling_factor is a quotient
\* of two uintmax_t values, and the product is converted to To.
CastIntToInt(kind, value, wf, wt) ==
    LET scaling_factor == EndPoint(kind, wt) \div EndPoint(kind, wf)
    IN  (value * scaling_factor) % 2^wt

\* tuple_transform_functor, integral From and To = float: scaling_factor is
\* the float quotient 1.0f / end_point.
CastIntToFloat(kind, value, wf) ==
    LET scaling_factor == FDiv(One, DInt(EndPoint(kind, wf)))
    IN  FMul(DInt(value), scaling_factor)

\* tuple_transform_functor, From = float and integral To: the float product
\* value * end_point, before its conversion to To.
CastFloatScaled(kind, value, wt) == FMul(value, DInt(EndPoint(kind, wt)))

\* The conversion of a float to an unsigned integer of w bits truncates; a
\* value outside the type's range is undefined behaviour: any result.
FloatToIntSet(x, w) ==
    IF DLt(DInt(-1), x) /\ DLt(x, DInt(2^w)) THEN {DTrunc(x)} ELSE 0 .. (2^w - 1)

\* color_cast<To>(Color<From>) for the three kinds of type pair.
color_cast_int_int(kinds, c, wf, wt) ==
    [i \in 1..3 |-> CastIntToInt(kinds[i], c[i], wf, wt)]

color_cast_int_float(kinds, c, wf) ==
    [i \in 1..3 |-> CastIntToFloat(kinds[i], c[i], wf)]

color_cast_float_int(kinds, c, wt) ==
    LET s == [i \in 1..3 |-> FloatToIntSet(CastFloatScaled(kinds[i], c[i], wt), wt)]
    IN  {<<a, b, d>> : a \in s[1], b \in s[2], d \in s[3]}

(***************************************************************************)
(* ConvertUtil.h                                                           *)
(***************************************************************************)
\* details::order_channels_for_hue: the channels after the swaps, the minimum
\* channel and the returned scaling factor.
order_channels_for_hue(c1, c2, c3) ==
    LET sw1 == DLt(c2, c3)
        b2 == IF sw1 THEN c3 ELSE c2
        b3 == IF sw1 THEN c2 ELSE c3
        f1 == IF sw1 THEN DInt(-1) ELSE DZero
        sw2 == DLt(c1, b2)
    IN  [c1 |-> IF sw2 THEN b2 ELSE c1,
         c2 |-> IF sw2 THEN c1 ELSE b2,
         c3 |-> b3,
         min_channel |-> IF sw2 THEN DMin(c1, b3) ELSE b3,
         hue_scaling_factor |-> IF sw2 THEN FSub(FloatLit(-1, 3), f1) ELSE f1]

\* details::chroma(max_channel, min_channel).
details_chroma(max_channel, min_channel) == FSub(max_channel, min_channel)

\* details::hue: the quotient and the sum are double (6.0 is a double
\* literal); the result is returned as T.
details_hue(chroma, scaling, c2, c3) ==
    ToFloat(DAbs(DblAdd(scaling,
        DblDiv(FSub(c2, c3), DblAdd(DblMul(DInt(6), chroma), EPSILON)))))

\* details::decompose_hue: the segment and the position in it.
decompose_hue(hue) ==
    LET scaled_hue == DblMul(hue, DInt(6))
        seg == DTrunc(scaled_hue)
    IN  [seg |-> seg, frac |-> ToFloat(DblSub(scaled_hue, DInt(seg)))]

(***************************************************************************)
(* Hsv.h                                                                   *)
(***************************************************************************)
\* to_hsv(const Rgb<T>&), T = float.
to_hsv(from) ==
    LET o == order_channels_for_hue(from[1], from[2], from[3])
        max_channel == o.c1
        chroma == details_chroma(max_channel, o.min_channel)
        hue == details_hue(chroma, o.hue_scaling_factor, o.c2, o.c3)
        value == o.c1
        saturation == FDiv(chroma, FAdd(value, EPSILON))
    IN  <<hue, saturation, value>>

\* The two channel formulas of to_rgb(const Hsv<T>&).  1.0 is a double literal,
\* so the expressions are double, except the product of the two float
\* operands saturation * hue_frac.
HsvRising(value, saturation, hue_frac) ==
    DblMul(value, DblSub(One, DblMul(saturation, DblSub(One, hue_frac))))

\* A variant of the falling channel with the fraction doubled.
HsvFallingDoubled(value, saturation, hue_frac) ==
    DblMul(value, DblSub(One, FMul(saturation, FMul(DInt(2), hue_frac))))

HsvFalling(value, saturation, hue_frac) ==
    DblMul(value, DblSub(One, FMul(saturation, hue_frac)))

\* A variant of HueCase whose switch has no case 6.
HueCaseToFive(hue_seg) ==
    IF hue_seg \in {-1, 0} THEN 0
    ELSE IF hue_seg \in {1, 2, 3, 4, 5} THEN hue_seg
    ELSE -2

\* The sector the switch of to_rgb selects for a hue segment: 0 for the cases
\* -1 and 0, 5 for the cases 5 and 6, -2 for the default case.
HueCase(hue_seg) ==
    IF hue_seg \in {-1, 0} THEN 0
    ELSE IF hue_seg \in {1, 2, 3, 4} THEN hue_seg
    ELSE IF hue_seg \in {5, 6} THEN 5
    ELSE -2

\* to_rgb(const Hsv<T>&), T = float.
to_rgb_hsv(from) ==
    LET d == decompose_hue(from[1])
        v == from[3]
        color_min_bound == ToFloat(DblMul(v, DblSub(One, from[2])))
        rising == ToFloat(HsvRising(v, from[2], d.frac))
        falling == ToFloat(HsvFalling(v, from[2], d.frac))
        case == HueCase(d.seg)
    IN  IF case = 0 THEN <<v, rising, color_min_bound>>
        ELSE IF case = 1 THEN <<falling, v, color_min_bound>>
        ELSE IF case = 2 THEN <<color_min_bound, v, rising>>
        ELSE IF case = 3 THEN <<color_min_bound, falling, v>>
        ELSE IF case = 4 THEN <<rising, color_min_bound, v>>
        ELSE IF case = 5 THEN <<v, color_min_bound, falling>>
        ELSE <<DZero, DZero, DZero>>

\* to_hsv(const Rgb<T>&), integral T of w bits, FloatType = float: the set of
\* results (one unless a conversion is undefined).
to_hsv_int(from, w) ==
    color_cast_float_int(CylKinds, to_hsv(color_cast_int_float(RgbKinds, from, w)), w)

\* to_rgb(const Hsv<T>&), integral T of w bits.
to_rgb_hsv_int(from, w) ==
    color_cast_float_int(RgbKinds, to_rgb_hsv(color_cast_int_float(CylKinds, from, w)), w)

\* details::order_channels_for_hue<T, FloatType> on integer channels.
order_channels_for_hue_int(c1, c2, c3) ==
    LET sw1 == c2 < c3
        b2 == IF sw1 THEN c3 ELSE c2
        b3 == IF sw1 THEN c2 ELSE c3
        f1 == IF sw1 THEN DInt(-1) ELSE DZero
        sw2 == c1 < b2
    IN  [c1 |-> IF sw2 THEN b2 ELSE c1,
         c2 |-> IF sw2 THEN c1 ELSE b2,
         c3 |-> b3,
         min_channel |-> IF sw2 THEN (IF c1 < b3 THEN c1 ELSE b3) ELSE b3,
         hue_scaling_factor |-> IF sw2 THEN FSub(FloatLit(-1, 3), f1) ELSE f1]

\* A variant of to_hsv_direct_out that scales the hue by the end point of a
\* bounded channel, 2^w - 1, instead of the period 2^w.
to_hsv_direct_out_bounded(hue, saturation, value, w) ==
    {<<h, s, value>> : h \in FloatToIntSet(CastFloatScaled("b", hue, w), w),
                       s \in FloatToIntSet(CastFloatScaled("b", saturation, w), w)}

\* The channels of the result of the direct integral to_hsv (ToHsv.h).
to_hsv_direct_out(hue, saturation, value, w) ==
    {<<h, s, value>> : h \in FloatToIntSet(CastFloatScaled("p", hue, w), w),
                       s \in FloatToIntSet(CastFloatScaled("b", saturation, w), w)}

to_hsv_direct_floats(o, one_over_max, chroma, w) ==
    to_hsv_direct_out(
        DAbs(FAdd(o.hue_scaling_factor,
                  FDiv(FMul(DInt(o.c2 - o.c3), one_over_max),
                       FAdd(FMul(DInt(6), chroma), EPSILON)))),
        FDiv(chroma, FAdd(FMul(DInt(o.c1), one_over_max), EPSILON)),
        o.c1, w)

to_hsv_direct_ordered(o, one_over_max, w) ==
    to_hsv_direct_floats(o, one_over_max, FMul(DInt(o.c1 - o.min_channel), one_over_max), w)

\* to_hsv(const Rgb<T>&) of ToHsv.h, integral T of w bits, FloatType = float:
\* the floats are computed from the integer channels directly.
to_hsv_direct(from, w) ==
    to_hsv_direct_ordered(order_channels_for_hue_int(from[1], from[2], from[3]),
                          FDiv(One, DInt(BoundedEndPoint(w))), w)

(***************************************************************************)
(* Hsl.h                                                                   *)
(***************************************************************************)
\* chroma(const Hsl<T>&): a double expression returned as T.
chroma_hsl(color) ==
    ToFloat(DblMul(DblSub(One, DAbs(DblSub(DblMul(DInt(2), color[3]), One))), color[2]))

\* to_rgb(const Hsl<T>&), T = float.
to_rgb_hsl(from) ==
    LET d == decompose_hue(from[1])
        chroma == chroma_hsl(from)
        lightness == from[3]
        color_min_bound == FSub(lightness, FMul(Half, chroma))
        color_max_bound == FAdd(color_min_bound, chroma)
        rising == FAdd(FMul(chroma, FSub(d.frac, Half)), lightness)
        falling == FAdd(FMul(chroma, FSub(Half, d.frac)), lightness)
        case == HueCase(d.seg)
    IN  IF case = 0 THEN <<color_max_bound, rising, color_min_bound>>
        ELSE IF case = 1 THEN <<falling, color_max_bound, color_min_bound>>
        ELSE IF case = 2 THEN <<color_min_bound, color_max_bound, rising>>
        ELSE IF case = 3 THEN <<color_min_bound, falling, color_max_bound>>
        ELSE IF case = 4 THEN <<rising, color_min_bound, color_max_bound>>
        ELSE IF case = 5 THEN <<color_max_bound, color_min_bound, falling>>
        ELSE <<DZero, DZero, DZero>>

\* to_hsl(const Rgb<T>&), T = float.
to_hsl_ordered(o, chroma, lightness) ==
    <<details_hue(chroma, o.hue_scaling_factor, o.c2, o.c3),
      FDiv(chroma, FAdd(FSub(One, DAbs(FSub(FMul(DInt(2), lightness), One))), EPSILON)),
      lightness>>

to_hsl_channels(o) ==
    to_hsl_ordered(o, details_chroma(o.c1, o.min_channel), FMul(Half, FAdd(o.c1, o.min_channel)))

to_hsl(from) == to_hsl_channels(order_channels_for_hue(from[1], from[2], from[3]))

\* to_hsl(const Rgb<T>&), integral T of w bits: the set of results.
to_hsl_int(from, w) ==
    color_cast_float_int(CylKinds, to_hsl(color_cast_int_float(RgbKinds, from, w)), w)

\* to_rgb(const Hsl<T>&), integral T of w bits.
to_rgb_hsl_int(from, w) ==
    color_cast_float_int(RgbKinds, to_rgb_hsl(color_cast_int_float(CylKinds, from, w)), w)

(***************************************************************************)
(* Angle.h and the cosine.  std::cos is the C library's: it is modelled by *)
(* its values at the arguments that the hue inputs of the model produce    *)
(* (the float overload for a float argument, the double one for a double). *)
(***************************************************************************)
\* PI<double>: the literal of Angle.h rounded to double.
DblPi == [s |-> 1, m |-> <<1443, 10786, 1014, 201>>, e |-> -48]

\* PI<float>.
FPi == ToFloat(DblPi)

\* Radians<float>::period_length(): PI<T> * 2.0 returned as T.
RadiansPeriodLength == ToFloat(DblMul(FPi, DInt(2)))

\* std::cos(float): pairs <<x, cosf(x)>>.
CosfTable == {
    <<DZero,
      [s |-> 1, m |-> <<1>>, e |-> 0]>>,
    <<[s |-> 1, m |-> <<6081, 24>>, e |-> -21],
      [s |-> 1, m |-> <<12247, 502>>, e |-> -23]>>,
    <<[s |-> 1, m |-> <<6621, 13>>, e |-> -20],
      [s |-> 1, m |-> <<13297, 500>>, e |-> -23]>>,
    <<[s |-> 1, m |-> <<6081, 24>>, e |-> -20],
      [s |-> 1, m |-> <<10849, 237>>, e |-> -22]>>,
    <<[s |-> 1, m |-> <<10101, 53>>, e |-> -21],
      [s |-> 1, m |-> <<7709, 935>>, e |-> -24]>>,
    <<[s |-> 1, m |-> <<3717, 146>>, e |-> -22],
      [s |-> 1, m |-> <<5913, 215>>, e |-> -22]>>,
    <<[s |-> 1, m |-> <<13919, 160>>, e |-> -22],
      [s |-> 1, m |-> <<7101, 828>>, e |-> -24]>>,
    <<[s |-> 1, m |-> <<15879, 194>>, e |-> -22],
      [s |-> 1, m |-> <<1697, 741>>, e |-> -24]>>,
    <<[s |-> 1, m |-> <<10101, 53>>, e |-> -20],
      [s |-> 1, m |-> <<4873, 171>>, e |-> -22]>>,
    <<[s |-> 1, m |-> <<7601, 30>>, e |-> -19],
      [s |-> 1, m |-> <<8103, 148>>, e |-> -22]>>,
    <<[s |-> 1, m |-> <<1353, 268>>, e |-> -22],
      [s |-> 1, m |-> <<16383, 1023>>, e |-> -25]>>,
    <<[s |-> 1, m |-> <<3717, 146>>, e |-> -21],
      [s |-> 1, m |-> <<12613, 850>>, e |-> -25]>>,
    <<[s |-> 1, m |-> <<13919, 160>>, e |-> -21],
      [s |-> 1, m |-> <<14201, 632>>, e |-> -25]>>,
    <<[s |-> 1, m |-> <<4899, 85>>, e |-> -20],
      [s |-> 1, m |-> <<10943, 965>>, e |-> -26]>>,
    <<[s |-> 1, m |-> <<10777, 187>>, e |-> -21],
      [s |-> 1, m |-> <<4895, 856>>, e |-> -27]>>,
    <<[s |-> 1, m |-> <<15879, 194>>, e |-> -21],
      [s |-> 1, m |-> <<14655, 194>>, e |-> -26]>>,
    <<[s |-> 1, m |-> <<15273, 428>>, e |-> -22],
      [s |-> -1, m |-> <<4907, 856>>, e |-> -27]>>,
    <<[s |-> 1, m |-> <<11151, 438>>, e |-> -22],
      [s |-> -1, m |-> <<15107, 582>>, e |-> -26]>>,
    <<[s |-> 1, m |-> <<1595, 965>>, e |-> -23],
      [s |-> -1, m |-> <<14207, 632>>, e |-> -25]>>,
    <<[s |-> 1, m |-> <<7601, 30>>, e |-> -18],
      [s |-> -1, m |-> <<13683, 669>>, e |-> -25]>>}

\* std::cos(double): pairs <<x, cos(x)>>.
CosTable == {
    <<[s |-> -1, m |-> <<5575, 219>>, e |-> -22],
      [s |-> 1, m |-> <<2225, 12784, 9460, 670>>, e |-> -52]>>,
    <<[s |-> -1, m |-> <<15273, 428>>, e |-> -23],
      [s |-> 1, m |-> <<1045, 14357, 6213, 1370>>, e |-> -53]>>,
    <<[s |-> -1, m |-> <<4899, 85>>, e |-> -21],
      [s |-> 1, m |-> <<913, 13855, 7522, 402>>, e |-> -51]>>,
    <<[s |-> -1, m |-> <<435, 5>>, e |-> -17],
      [s |-> 1, m |-> <<13835, 5549, 7098, 828>>, e |-> -52]>>,
    <<[s |-> -1, m |-> <<14021, 121>>, e |-> -22],
      [s |-> 1, m |-> <<9707, 4443, 1371, 455>>, e |-> -51]>>,
    <<[s |-> -1, m |-> <<3817, 107>>, e |-> -22],
      [s |-> 1, m |-> <<10923, 263, 7711, 935>>, e |-> -52]>>,
    <<[s |-> -1, m |-> <<1859, 73>>, e |-> -22],
      [s |-> 1, m |-> <<691, 1774, 4266, 491>>, e |-> -51]>>,
    <<[s |-> -1, m |-> <<10101, 53>>, e |-> -22],
      [s |-> 1, m |-> <<13801, 1869, 4035, 2003>>, e |-> -53]>>,
    <<[s |-> -1, m |-> <<6081, 24>>, e |-> -22],
      [s |-> 1, m |-> <<1173, 12897, 11902, 2038>>, e |-> -53]>>,
    <<DZero,
      [s |-> 1, m |-> <<1>>, e |-> 0]>>,
    <<[s |-> 1, m |-> <<6081, 24>>, e |-> -22],
      [s |-> 1, m |-> <<1173, 12897, 11902, 2038>>, e |-> -53]>>,
    <<[s |-> 1, m |-> <<10101, 53>>, e |-> -22],
      [s |-> 1, m |-> <<13801, 1869, 4035, 2003>>, e |-> -53]>>,
    <<[s |-> 1, m |-> <<9121, 36>>, e |-> -21],
      [s |-> 1, m |-> <<6893, 11255, 682, 1965>>, e |-> -53]>>,
    <<[s |-> 1, m |-> <<10101, 53>>, e |-> -21],
      [s |-> 1, m |-> <<9191, 12751, 15418, 1870>>, e |-> -53]>>,
    <<[s |-> 1, m |-> <<7601, 30>>, e |-> -20],
      [s |-> 1, m |-> <<8597, 6149, 2744, 910>>, e |-> -52]>>,
    <<[s |-> 1, m |-> <<13919, 160>>, e |-> -22],
      [s |-> 1, m |-> <<14613, 6221, 14201, 1656>>, e |-> -53]>>,
    <<[s |-> 1, m |-> <<9797, 170>>, e |-> -22],
      [s |-> 1, m |-> <<12729, 2685, 15048, 804>>, e |-> -52]>>,
    <<[s |-> 1, m |-> <<7637, 214>>, e |-> -22],
      [s |-> 1, m |-> <<5171, 14806, 6210, 1370>>, e |-> -53]>>,
    <<[s |-> 1, m |-> <<5575, 219>>, e |-> -22],
      [s |-> 1, m |-> <<2225, 12784, 9460, 670>>, e |-> -52]>>,
    <<[s |-> 1, m |-> <<1353, 268>>, e |-> -22],
      [s |-> 1, m |-> <<15267, 2509, 16383, 1023>>, e |-> -53]>>}

Cosf(x) == (CHOOSE t \in CosfTable : t[1] = x)[2]
Cos(x) == (CHOOSE t \in CosTable : t[1] = x)[2]

(***************************************************************************)
(* Hsi.h                                                                   *)
(***************************************************************************)
\* Hsi<T>::max_in_gamut_intensity, T = float.
max_in_gamut_intensity(color) ==
    LET third == FloatLit(1, 3)
        scaled_hue == ToFloat(DblMul(color[1], DInt(3)))
        seg == DTrunc(scaled_hue)
        hue_param == FMul(third, FSub(scaled_hue, FMul(DInt(seg), One)))
        hue_alpha == IF DLe(hue_param, FloatLit(1, 6))
                     THEN FMul(DInt(6), hue_param)
                     ELSE FMul(DInt(6), FSub(third, hue_param))
        s == color[2]
        max_channel == One
        min_channel ==
            FDiv(FMul(FMul(FAdd(hue_alpha, One), max_channel), FSub(s, One)),
                 FSub(FSub(FMul(hue_alpha, FSub(s, One)), FMul(DInt(2), s)), One))
    IN  FMul(third,
             FAdd(FAdd(FAdd(max_channel, min_channel), FMul(hue_alpha, max_channel)),
                  FMul(FSub(One, hue_alpha), min_channel)))

\* Hsi<T>::is_in_gamut.
is_in_gamut(color) == DLe(color[3], max_in_gamut_intensity(color))

\* details::preserve_oog_mode and details::clip_oog_mode on <<c1, c2, c3>>.
preserve_oog_mode(c) == c

\* A variant of clip_oog_mode that clips c1 only.
clip_oog_mode_first(c) == <<DMin(c[1], One), c[2], c[3]>>

clip_oog_mode(c) == <<DMin(c[1], One), DMin(c[2], One), DMin(c[3], One)>>

\* The gamut function of an HsiOutOfGamutMode.
GamutFn(mode, c) == IF mode = "Clip" THEN clip_oog_mode(c) ELSE preserve_oog_mode(c)

\* to_rgb(const Hsi<T>&, gamut_fn), T = float.
to_rgb_hsi(from, mode) ==
    LET hue == from[1]
        saturation == from[2]
        intensity == from[3]
        hue_angle == DFmod(FMul(hue, RadiansPeriodLength),
                           ToFloat(DblDiv(DblMul(DInt(2), FPi), DInt(3))))
        c1 == FMul(intensity, FSub(One, saturation))
        c2 == ToFloat(DblMul(intensity,
                  DblAdd(One, DblDiv(FMul(saturation, Cosf(hue_angle)),
                                     Cos(DblSub(DblDiv(FPi, DInt(3)), hue_angle))))))
        c3 == FSub(FMul(DInt(3), intensity), FAdd(c1, c2))
        c == GamutFn(mode, <<c1, c2, c3>>)
    IN  IF DLt(hue, DblLit(1, 3)) THEN <<c[2], c[3], c[1]>>
        ELSE IF DLt(hue, DblLit(2, 3)) THEN <<c[1], c[2], c[3]>>
        ELSE <<c[3], c[1], c[2]>>

\* The default of to_rgb's parameter gamut_fix_mode.
DefaultGamutMode == "Clip"

\* std::sqrt(3.0).
DblSqrt3 == [s |-> 1, m |-> <<9813, 4272, 13271, 886>>, e |-> -51]

\* std::atan2(float, float) at the arguments the colours of the model
\* produce: triples <<y, x, atan2f(y, x)>>.
Atan2fTable == {
    <<[s |-> -1, m |-> <<13271, 886>>, e |-> -24],
      [s |-> -1, m |-> <<3277, 307>>, e |-> -24],
      [s |-> -1, m |-> <<8077, 487>>, e |-> -22]>>,
    <<[s |-> -1, m |-> <<1761, 665>>, e |-> -24],
      [s |-> -1, m |-> <<5>>, e |-> -3],
      [s |-> -1, m |-> <<9263, 149>>, e |-> -20]>>,
    <<[s |-> -1, m |-> <<10997, 674>>, e |-> -25],
      [s |-> -1, m |-> <<2699, 298>>, e |-> -23],
      [s |-> -1, m |-> <<3745, 336>>, e |-> -21]>>,
    <<[s |-> -1, m |-> <<11997, 41>>, e |-> -26],
      [s |-> -1, m |-> <<8353, 642>>, e |-> -30],
      [s |-> -1, m |-> <<9263, 149>>, e |-> -20]>>,
    <<[s |-> -1, m |-> <<11727, 667>>, e |-> -30],
      [s |-> -1, m |-> <<8289, 385>>, e |-> -30],
      [s |-> -1, m |-> <<1353, 268>>, e |-> -21]>>,
    <<DZero,
      DZero,
      DZero>>,
    <<DZero,
      [s |-> 1, m |-> <<1>>, e |-> 0],
      DZero>>,
    <<[s |-> 1, m |-> <<7343, 709>>, e |-> -27],
      [s |-> -1, m |-> <<1>>, e |-> -2],
      [s |-> 1, m |-> <<7197, 359>>, e |-> -21]>>,
    <<[s |-> 1, m |-> <<597, 306>>, e |-> -25],
      [s |-> -1, m |-> <<5205, 337>>, e |-> -25],
      [s |-> 1, m |-> <<14841, 153>>, e |-> -20]>>,
    <<[s |-> 1, m |-> <<13271, 886>>, e |-> -26],
      [s |-> 1, m |-> <<1>>, e |-> -3],
      [s |-> 1, m |-> <<1353, 268>>, e |-> -22]>>,
    <<[s |-> 1, m |-> <<1761, 665>>, e |-> -24],
      [s |-> -1, m |-> <<1>>, e |-> -3],
      [s |-> 1, m |-> <<9699, 901>>, e |-> -23]>>,
    <<[s |-> 1, m |-> <<14489, 173>>, e |-> -22],
      DZero,
      [s |-> 1, m |-> <<4059, 804>>, e |-> -23]>>}

Atan2f(y, x) == (CHOOSE t \in Atan2fTable : t[1] = y /\ t[2] = x)[3]

\* chromacity_coordinates(const Rgb<T>&), T = float: <<alpha, beta>>; beta is
\* a double product returned as T.
chromacity_coordinates(color) ==
    <<FSub(color[1], FMul(Half, FAdd(color[2], color[3]))),
      ToFloat(DblMul(DblMul(DblSqrt3, Half), FSub(color[2], color[3])))>>

\* to_hsi(const Rgb<T>&), T = float.
to_hsi_hue(hue) == IF DLt(hue, DZero) THEN ToFloat(DblAdd(One, hue)) ELSE hue

to_hsi_channels(ab, min, intensity) ==
    <<to_hsi_hue(FDiv(Atan2f(ab[2], ab[1]), RadiansPeriodLength)),
      IF intensity # DZero THEN FSub(One, FDiv(min, intensity)) ELSE DZero,
      intensity>>

to_hsi(from) ==
    to_hsi_channels(chromacity_coordinates(from),
                    DMin(DMin(from[1], from[2]), from[3]),
                    FMul(FloatLit(1, 3), FAdd(FAdd(from[1], from[2]), from[3])))

\* to_hsi(const Rgb<T>&), integral T of w bits: the value of its return
\* expression color_cast<T>(to_hsl(color_cast<FloatType>(from))).  The
\* expression is an Hsl<T>, which has no conversion to the declared return
\* type Hsi<T>: a call of this overload does not compile.
to_hsi_int(from, w) ==
    color_cast_float_int(CylKinds, to_hsl(color_cast_int_float(RgbKinds, from, w)), w)

(***************************************************************************)
(* Rgb.h and Alpha.h.  An Alpha colour is <<colour, alpha>>.               *)
(***************************************************************************)
\* Rgb<T>::scale(factor), T and the factor float.
rgb_scale(c, factor) == [i \in 1..3 |-> FMul(c[i], factor)]

\* Rgb<T>::lerp(end, pos): every channel is bounded, so lerp_flat; Pos float.
rgb_lerp(c, end, pos) == [i \in 1..3 |-> lerp_flat(c[i], end[i], pos, 24)]

\* 2^32 and 2^31, the range of unsigned and of int.
Pow2_32 == [s |-> 1, m |-> <<1>>, e |-> 32]
Pow2_31 == [s |-> 1, m |-> <<1>>, e |-> 31]

\* An integer reduced to unsigned (32 bits), and to int in two's complement.
WrapUnsigned32Rem(r) == IF r.s = -1 THEN DAdd(r, Pow2_32) ELSE r
WrapUnsigned32(x) == WrapUnsigned32Rem(DFmod(x, Pow2_32))
WrapSigned32Of(u) == IF DLt(u, Pow2_31) THEN u ELSE DSub(u, Pow2_32)
WrapSigned32(x) == WrapSigned32Of(WrapUnsigned32(x))

\* red() - rhs.red() in squared_distance, T integral of w bits: the operands
\* are promoted to int for w < 32 and stay unsigned for w = 32.
channel_difference(a, b, w) ==
    IF w < 32 THEN DInt(a - b) ELSE WrapUnsigned32(DInt(a - b))

\* d_red * d_red + d_green * d_green + d_blue * d_blue as an integer.
sum_of_squares(d_red, d_green, d_blue) ==
    DAdd(DAdd(DMul(d_red, d_red), DMul(d_green, d_green)), DMul(d_blue, d_blue))

\* The value of the sum in the arithmetic of its type: unsigned wraps; an int
\* sum beyond INT_MAX is undefined, and a build yields it wrapped or keeps
\* the wide value.
sum_of_squares_typed(sum, w) ==
    IF w = 32 THEN {WrapUnsigned32(sum)}
    ELSE IF DLt(sum, Pow2_31) THEN {sum}
    ELSE {WrapSigned32(sum), sum}

\* Rgb<T>::squared_distance(rhs), T integral of w bits, PosType float.
squared_distance_int(a, b, w) ==
    {FMul(FloatLit(1, 3), ToFloat(s)) :
        s \in sum_of_squares_typed(
                  sum_of_squares(channel_difference(a[1], b[1], w),
                                 channel_difference(a[2], b[2], w),
                                 channel_difference(a[3], b[3], w)), w)}

\* std::sqrt(float) on the values squared_distance takes on the colours of
\* DistColors: <<x, sqrtf(x)>>.
SqrtfTable == {
    <<DZero,
      DZero>>,
    <<[s |-> 1, m |-> <<10923, 682>>, e |-> -25],
      [s |-> 1, m |-> <<9885, 295>>, e |-> -23]>>,
    <<[s |-> 1, m |-> <<17>>, e |-> 0],
      [s |-> 1, m |-> <<12411, 527>>, e |-> -21]>>,
    <<[s |-> 1, m |-> <<9>>, e |-> 1],
      [s |-> 1, m |-> <<8667, 271>>, e |-> -20]>>,
    <<[s |-> 1, m |-> <<8875, 832>>, e |-> -11],
      [s |-> 1, m |-> <<14531, 652>>, e |-> -17]>>,
    <<[s |-> 1, m |-> <<12971, 746>>, e |-> -10],
      [s |-> 1, m |-> <<7859, 874>>, e |-> -17]>>,
    <<[s |-> 1, m |-> <<6571, 272>>, e |-> -8],
      [s |-> 1, m |-> <<8267, 16>>, e |-> -11]>>,
    <<[s |-> 1, m |-> <<4375>>, e |-> 2],
      [s |-> 1, m |-> <<9423, 264>>, e |-> -15]>>,
    <<[s |-> 1, m |-> <<11947, 680>>, e |-> -9],
      [s |-> 1, m |-> <<6015, 590>>, e |-> -16]>>,
    <<[s |-> 1, m |-> <<1451, 342>>, e |-> -8],
      [s |-> 1, m |-> <<16241, 36>>, e |-> -12]>>,
    <<[s |-> 1, m |-> <<6641, 1>>, e |-> 0],
      [s |-> 1, m |-> <<15723, 606>>, e |-> -16]>>,
    <<[s |-> 1, m |-> <<15275, 682>>, e |-> -8],
      [s |-> 1, m |-> <<1045, 209>>, e |-> -14]>>,
    <<[s |-> 1, m |-> <<11179, 506>>, e |-> -7],
      [s |-> 1, m |-> <<5465, 127>>, e |-> -13]>>,
    <<[s |-> 1, m |-> <<15873, 3>>, e |-> 0],
      [s |-> 1, m |-> <<255>>, e |-> 0]>>,
    <<[s |-> 1, m |-> <<683, 651>>, e |-> -5],
      [s |-> 1, m |-> <<5739, 577>>, e |-> -14]>>,
    <<[s |-> 1, m |-> <<7489, 468>>, e |-> 4],
      [s |-> 1, m |-> <<9893, 692>>, e |-> -10]>>,
    <<[s |-> 1, m |-> <<9811, 23>>, e |-> 10],
      [s |-> 1, m |-> <<13209, 621>>, e |-> -9]>>,
    <<[s |-> 1, m |-> <<6035, 896>>, e |-> 5],
      [s |-> 1, m |-> <<11891, 338>>, e |-> -8]>>,
    <<[s |-> 1, m |-> <<4059, 448>>, e |-> 6],
      [s |-> 1, m |-> <<8185, 677>>, e |-> -9]>>,
    <<[s |-> 1, m |-> <<5101, 448>>, e |-> 6],
      [s |-> 1, m |-> <<8973, 677>>, e |-> -9]>>,
    <<[s |-> 1, m |-> <<8573, 653>>, e |-> 6],
      [s |-> 1, m |-> <<839, 818>>, e |-> -9]>>,
    <<[s |-> 1, m |-> <<4467, 164>>, e |-> 8],
      [s |-> 1, m |-> <<2301, 410>>, e |-> -8]>>,
    <<[s |-> 1, m |-> <<10947, 682>>, e |-> 6],
      [s |-> 1, m |-> <<765, 418>>, e |-> -8]>>,
    <<[s |-> 1, m |-> <<15465, 104>>, e |-> 9],
      [s |-> 1, m |-> <<3283, 927>>, e |-> -9]>>,
    <<[s |-> 1, m |-> <<9449, 214>>, e |-> 8],
      [s |-> 1, m |-> <<1875>>, e |-> 4]>>,
    <<[s |-> 1, m |-> <<10119, 973>>, e |-> 6],
      [s |-> 1, m |-> <<4023, 499>>, e |-> -8]>>,
    <<[s |-> 1, m |-> <<16153, 330>>, e |-> 8],
      [s |-> 1, m |-> <<2893, 582>>, e |-> -8]>>,
    <<[s |-> 1, m |-> <<5291, 341>>, e |-> 8],
      [s |-> 1, m |-> <<3239, 591>>, e |-> -8]>>}

\* std::sqrt(float); the root of a negative value is a NaN.
Sqrtf(x) == IF x.s = -1 THEN NaN ELSE (CHOOSE t \in SqrtfTable : t[1] = x)[2]

\* Rgb<T>::distance(rhs), T integral of w bits, PosType float.
distance_int(a, b, w) == {Sqrtf(q) : q \in squared_distance_int(a, b, w)}

\* A variant of alpha_blend that takes the transparent path only when the
\* output alpha is exactly zero.
alpha_blend_exact_zero(src, dest) ==
    LET inv_src_alpha == FSub(One, src[2])
        out_alpha == FAdd(src[2], FMul(dest[2], inv_src_alpha))
    IN  IF out_alpha = DZero
        THEN <<<<DZero, DZero, DZero>>, out_alpha>>
        ELSE <<rgb_lerp(src[1], rgb_scale(dest[1], dest[2]), inv_src_alpha), out_alpha>>

\* alpha_blend(const Alpha<T, Color>& src, const Alpha<T, Color>& dest),
\* T = float, Color = Rgb.
alpha_blend(src, dest) ==
    LET inv_src_alpha == FSub(One, src[2])
        out_alpha == FAdd(src[2], FMul(dest[2], inv_src_alpha))
    IN  IF DLe(out_alpha, FLOAT_EPSILON)
        THEN <<<<DZero, DZero, DZero>>, out_alpha>>
        ELSE LET premul_dest == rgb_scale(dest[1], dest[2])
             IN  <<rgb_lerp(src[1], premul_dest, inv_src_alpha), out_alpha>>

\* The conversion T(x) of a floating value to an unsigned integer of w bits
\* where x may lie outside the type's range (undefined behaviour): in range
\* it truncates; out of range the result is one of the values builds
\* produce, the low w bits of a wider conversion or a saturated value.
FloatToIntOutcomes(x, w) ==
    IF DLt(DInt(-1), x) /\ DLt(x, DInt(2^w)) THEN {DTrunc(x)}
    ELSE {DTrunc(x) % 2^w, 0, 2^w - 1}

\* The float sum inv_pos * start + pos * end of details::lerp_flat for an
\* integer channel, before its conversion to T.
lerp_flat_sum(start, end, pos, p) ==
    RAdd(p, RMul(p, RSub(p, One, pos), DInt(start)), RMul(p, pos, DInt(end)))

\* Rgb<T>::scale(factor), T integral of w bits: the float products are
\* converted to T by the constructor.
rgb_scale_int(c, factor, w) ==
    {<<r, g, b>> : r \in FloatToIntOutcomes(FMul(DInt(c[1]), factor), w),
                   g \in FloatToIntOutcomes(FMul(DInt(c[2]), factor), w),
                   b \in FloatToIntOutcomes(FMul(DInt(c[3]), factor), w)}

\* Rgb<T>::lerp(end, pos), T integral of w bits, Pos of precision p.
rgb_lerp_int(c, end, pos, p, w) ==
    {<<r, g, b>> : r \in FloatToIntOutcomes(lerp_flat_sum(c[1], end[1], pos, p), w),
                   g \in FloatToIntOutcomes(lerp_flat_sum(c[2], end[2], pos, p), w),
                   b \in FloatToIntOutcomes(lerp_flat_sum(c[3], end[3], pos, p), w)}

\* BoundedChannelImpl<integral>::to_float_channel<float>.
to_float_channel(value, w) == FDiv(DInt(value), DInt(BoundedEndPoint(w)))

\* BoundedChannelImpl<integral>::from_float_channel(float).
from_float_channel(val, w) == FloatToIntOutcomes(FMul(val, DInt(BoundedEndPoint(w))), w)

\* The else branch of the integral alpha_blend.
alpha_blend_int_mix(src, dest, scaled_dest_alpha, inv_src_alpha, out_alpha_float, w) ==
    {<<col, a>> : col \in UNION {rgb_lerp_int(src[1], premul_dest, inv_src_alpha, 24, w) :
                                     premul_dest \in rgb_scale_int(dest[1], scaled_dest_alpha, w)},
                  a \in from_float_channel(out_alpha_float, w)}

alpha_blend_int_out(src, dest, scaled_dest_alpha, inv_src_alpha, out_alpha_float, w) ==
    IF DLe(out_alpha_float, FLOAT_EPSILON)
    THEN {<<<<0, 0, 0>>, 0>>}
    ELSE alpha_blend_int_mix(src, dest, scaled_dest_alpha, inv_src_alpha, out_alpha_float, w)

alpha_blend_int_alphas(src, dest, scaled_src_alpha, scaled_dest_alpha, inv_src_alpha, w) ==
    alpha_blend_int_out(src, dest, scaled_dest_alpha, inv_src_alpha,
                        FAdd(scaled_src_alpha, FMul(scaled_dest_alpha, inv_src_alpha)), w)

\* alpha_blend(const Alpha<T, Color>& src, const Alpha<T, Color>& dest),
\* T integral of w bits, Pos = float, Color = Rgb: the set of results.
alpha_blend_int(src, dest, w) ==
    alpha_blend_int_alphas(src, dest, to_float_channel(src[2], w), to_float_channel(dest[2], w),
                           FSub(One, to_float_channel(src[2], w)), w)

\* alpha_blend(const Alpha<T, Color>& src, const Color<T>& dest), T = float:
\* the position 1.0 - src.alpha() is a double.
alpha_blend_opaque(src, dest) ==
    <<[i \in 1..3 |-> lerp_flat(src[1][i], dest[i], DblSub(One, src[2]), 53)], One>>

\* The same overload for T integral of w bits: src.alpha() is the stored
\* integer, so the position is the double 1.0 - alpha.
alpha_blend_opaque_int(src, dest, w) ==
    {<<col, BoundedMaxValue(w)>> :
         col \in rgb_lerp_int(src[1], dest, DblSub(One, DInt(src[2])), 53, w)}

\* The conversions of an Alpha colour: the inner colour is converted and
\* paired with from.alpha().  to_hsl_rgba_int_opaque is a variant that
\* returns an opaque colour instead.
to_hsv_rgba(from) == <<to_hsv(from[1]), from[2]>>
to_hsv_rgba_int(from, w) == {<<c, from[2]>> : c \in to_hsv_int(from[1], w)}
to_hsv_rgba_direct(from, w) == {<<c, from[2]>> : c \in to_hsv_direct(from[1], w)}
to_hsl_rgba(from) == <<to_hsl(from[1]), from[2]>>
to_hsl_rgba_int_opaque(from, w) == {<<c, BoundedMaxValue(w)>> : c \in to_hsl_int(from[1], w)}
to_hsl_rgba_int(from, w) == {<<c, from[2]>> : c \in to_hsl_int(from[1], w)}
to_hsi_rgba(from) == <<to_hsi(from[1]), from[2]>>
to_hsi_rgba_int(from, w) == {<<c, from[2]>> : c \in to_hsi_int(from[1], w)}
to_rgb_hsva(from) == <<to_rgb_hsv(from[1]), from[2]>>
to_rgb_hsva_int(from, w) == {<<c, from[2]>> : c \in to_rgb_hsv_int(from[1], w)}
to_rgb_hsla(from) == <<to_rgb_hsl(from[1]), from[2]>>
to_rgb_hsla_int(from, w) == {<<c, from[2]>> : c \in to_rgb_hsl_int(from[1], w)}

(***************************************************************************)
(* The state machines.  Each specification applies one family of library   *)
(* operations to inputs drawn from a bounded set: inp is the input, out    *)
(* the sequence of results so far, pc the position in the family's calls.  *)
(***************************************************************************)
VARIABLES pc, inp, out

vars == <<pc, inp, out>>

\* The floats k / n, k = 0 .. n.
FGrid(n) == {FDiv(DInt(k), DInt(n)) : k \in 0..n}

\* The w-bit integers k * max / n, k = 0 .. n.
IGrid(n, w) == {(k * BoundedMaxValue(w)) \div n : k \in 0..n}

\* |x - y| <= tol, exactly.
Near(x, y, tol) == DLe(DAbs(DSub(x, y)), tol)

(***************************************************************************)
(* RGB -> HSV -> RGB -> HSV on float colours.                              *)
(***************************************************************************)
RtN == 3

\* A channel value close to zero: the float 1e-8.
Tiny == FloatLit(1, 100000000)

RtChannels == FGrid(RtN) \cup {Tiny}

InitRoundTrip ==
    /\ pc = "rgb"
    /\ inp \in {<<r, g, b>> : r \in RtChannels, g \in RtChannels, b \in RtChannels}
    /\ out = <<>>

RtToHsv ==
    /\ pc = "rgb"
    /\ out' = <<to_hsv(inp)>>
    /\ pc' = "hsv"
    /\ UNCHANGED inp

RtToRgb ==
    /\ pc = "hsv"
    /\ out' = Append(out, to_rgb_hsv(out[1]))
    /\ pc' = "back"
    /\ UNCHANGED inp

RtToHsvAgain ==
    /\ pc = "back"
    /\ out' = Append(out, to_hsv(out[2]))
    /\ pc' = "again"
    /\ UNCHANGED inp

NextRoundTrip == RtToHsv \/ RtToRgb \/ RtToHsvAgain

SpecRoundTrip == InitRoundTrip /\ [][NextRoundTrip]_vars

(***************************************************************************)
(* RGB -> HSV -> RGB on integer colours of 8 and 16 bits.                  *)
(***************************************************************************)
U8N == 2
U16N == 2

Levels8 == IGrid(U8N, 8) \cup {89, 215}
Levels16 == IGrid(U16N, 16) \cup {431, 63616}

InitInt ==
    /\ pc = "rgb"
    /\ inp \in {[w |-> 8, c |-> <<r, g, b>>] : r \in Levels8, g \in Levels8, b \in Levels8}
          \cup {[w |-> 16, c |-> <<r, g, b>>] : r \in Levels16, g \in Levels16, b \in Levels16}
    /\ out = <<>>

IntToHsv ==
    /\ pc = "rgb"
    /\ \E h \in to_hsv_int(inp.c, inp.w) : out' = <<h>>
    /\ pc' = "hsv"
    /\ UNCHANGED inp

IntToRgb ==
    /\ pc = "hsv"
    /\ \E c \in to_rgb_hsv_int(out[1], inp.w) : out' = Append(out, c)
    /\ pc' = "back"
    /\ UNCHANGED inp

NextInt == IntToHsv \/ IntToRgb

SpecInt == InitInt /\ [][NextInt]_vars

(***************************************************************************)
(* Hsv<T>::lerp, T = uint8_t and T = float, Pos = double.                  *)
(***************************************************************************)
PosN == 4
HueIntN == 5
HueFloatN == 10

Positions == {DblDiv(DInt(k), DInt(PosN)) : k \in 0..PosN}
IntHues == IGrid(HueIntN, 8) \cup {50, 205} \cup {72, 200}
FloatHues == FGrid(HueFloatN) \cup {DblLit(1, 4), DblLit(3, 4)}

InitLerp ==
    /\ pc = "start"
    /\ \/ inp \in {[ty |-> "u8", c |-> <<h, 125, 200>>, c2 |-> <<h2, 250, 250>>, pos |-> p] :
                       h \in IntHues, h2 \in IntHues, p \in Positions}
       \/ inp \in {[ty |-> "f32", c |-> <<h, Half, One>>, c2 |-> <<h2, One, Half>>, pos |-> p] :
                       h \in FloatHues, h2 \in FloatHues, p \in Positions}
    /\ out = <<>>

\* CylindricalColor::lerp on Hsv<uint8_t>.
LerpInt ==
    /\ pc = "start"
    /\ inp.ty = "u8"
    /\ out' = <<lerp_cyclic_int(inp.c[1], inp.c2[1], inp.pos, 53, 8),
                lerp_flat_int(inp.c[2], inp.c2[2], inp.pos, 53),
                lerp_flat_int(inp.c[3], inp.c2[3], inp.pos, 53)>>
    /\ pc' = "done"
    /\ UNCHANGED inp

\* CylindricalColor::lerp on Hsv<float>.
LerpFloat ==
    /\ pc = "start"
    /\ inp.ty = "f32"
    /\ out' = <<lerp_cyclic(inp.c[1], inp.c2[1], inp.pos, 53),
                lerp_flat(inp.c[2], inp.c2[2], inp.pos, 53),
                lerp_flat(inp.c[3], inp.c2[3], inp.pos, 53)>>
    /\ pc' = "done"
    /\ UNCHANGED inp

NextLerp == LerpInt \/ LerpFloat

SpecLerp == InitLerp /\ [][NextLerp]_vars

(***************************************************************************)
(* alpha_blend on Rgba<float> and Rgba<uint8_t>: first the overload taking *)
(* two Alpha colours, then the overload taking an opaque destination.      *)
(***************************************************************************)
AlphaN == 4
ChanN == 2

\* An alpha far below FLOAT_EPSILON: the float 1e-6.
TinyAlpha == FloatLit(1, 1000000)

FloatAlphas == FGrid(AlphaN) \cup {TinyAlpha}
IntAlphas == IGrid(ChanN, 8) \cup {1, 200}

FloatSrcColors == {<<One, DZero, DZero>>, <<Half, One, FloatLit(3, 10)>>}
FloatDestColors == {<<DZero, DZero, One>>, <<One, One, One>>}
IntSrcColors == {<<57, 128, 212>>, <<255, 0, 0>>}
IntDestColors == {<<20, 120, 217>>, <<0, 0, 255>>}

InitBlend ==
    /\ pc = "start"
    /\ \/ inp \in {[ty |-> "f32", src |-> <<c, a>>, dest |-> <<d, b>>] :
                       c \in FloatSrcColors, a \in FloatAlphas,
                       d \in FloatDestColors, b \in FloatAlphas}
       \/ inp \in {[ty |-> "u8", src |-> <<c, a>>, dest |-> <<d, b>>] :
                       c \in IntSrcColors, a \in IntAlphas,
                       d \in IntDestColors, b \in IntAlphas}
    /\ out = <<>>

\* alpha_blend(src, dest) on Rgba<float>.
BlendFloat ==
    /\ pc = "start"
    /\ inp.ty = "f32"
    /\ out' = <<alpha_blend(inp.src, inp.dest)>>
    /\ pc' = "blended"
    /\ UNCHANGED inp

\* alpha_blend(src, dest) on Rgba<uint8_t>.
BlendInt ==
    /\ pc = "start"
    /\ inp.ty = "u8"
    /\ \E r \in alpha_blend_int(inp.src, inp.dest, 8) : out' = <<r>>
    /\ pc' = "blended"
    /\ UNCHANGED inp

\* alpha_blend(src, dest.color()) on Rgba<float> and Rgb<float>.
BlendOpaqueFloat ==
    /\ pc = "blended"
    /\ inp.ty = "f32"
    /\ out' = Append(out, alpha_blend_opaque(inp.src, inp.dest[1]))
    /\ pc' = "opaque"
    /\ UNCHANGED inp

\* alpha_blend(src, dest.color()) on Rgba<uint8_t> and Rgb<uint8_t>.
BlendOpaqueInt ==
    /\ pc = "blended"
    /\ inp.ty = "u8"
    /\ \E r \in alpha_blend_opaque_int(inp.src, inp.dest[1], 8) : out' = Append(out, r)
    /\ pc' = "opaque"
    /\ UNCHANGED inp

NextBlend == BlendFloat \/ BlendInt \/ BlendOpaqueFloat \/ BlendOpaqueInt

SpecBlend == InitBlend /\ [][NextBlend]_vars

(***************************************************************************)
(* The conversions of Alpha colours: Rgba<float> and Rgba<uint8_t> to      *)
(* Hsva, Hsla and Hsia, and Hsva and Hsla back to Rgba.                    *)
(***************************************************************************)
FloatRgbs == {<<DZero, DZero, DZero>>, <<One, One, One>>, <<One, DZero, DZero>>,
              <<Half, One, DblLit(1, 4)>>,
              <<FloatLit(3, 10), FloatLit(6, 10), Half>>,
              <<DZero, DblLit(1, 4), One>>,
              <<DblLit(3, 4), DblLit(3, 4), Half>>,
              <<FloatLit(2, 10), DZero, One>>}
IntRgbs == {<<57, 121, 77>>, <<100, 200, 0>>, <<0, 1, 4>>, <<2, 2, 5>>, <<0, 0, 0>>,
            <<255, 255, 255>>, <<255, 0, 0>>, <<20, 120, 217>>}

InitWrapped ==
    /\ pc = "rgba"
    /\ \/ inp \in {[ty |-> "f32", c |-> <<c, a>>] : c \in FloatRgbs, a \in FGrid(AlphaN)}
       \/ inp \in {[ty |-> "u8", c |-> <<c, a>>] : c \in IntRgbs, a \in IGrid(ChanN, 8) \cup {200}}
    /\ out = <<>>

\* to_hsv(const Rgba<T>&), T = float.
RgbaToHsvFloat ==
    /\ pc = "rgba" /\ inp.ty = "f32"
    /\ out' = <<to_hsv_rgba(inp.c)>>
    /\ pc' = "hsva"
    /\ UNCHANGED inp

\* to_hsv(const Rgba<T>&), T = uint8_t (Hsv.h: through color_cast).
RgbaToHsvInt ==
    /\ pc = "rgba" /\ inp.ty = "u8"
    /\ \E r \in to_hsv_rgba_int(inp.c, 8) : out' = <<r>>
    /\ pc' = "hsva"
    /\ UNCHANGED inp

\* to_hsv(const Rgba<T>&), T = uint8_t (ToHsv.h: direct).
RgbaToHsvDirect ==
    /\ pc = "rgba" /\ inp.ty = "u8"
    /\ \E r \in to_hsv_rgba_direct(inp.c, 8) : out' = <<r>>
    /\ pc' = "hsva_direct"
    /\ UNCHANGED inp

\* to_hsl(const Rgba<T>&), T = float.
RgbaToHslFloat ==
    /\ pc = "rgba" /\ inp.ty = "f32"
    /\ out' = <<to_hsl_rgba(inp.c)>>
    /\ pc' = "hsla"
    /\ UNCHANGED inp

\* to_hsl(const Rgba<T>&), T = uint8_t.
RgbaToHslInt ==
    /\ pc = "rgba" /\ inp.ty = "u8"
    /\ \E r \in to_hsl_rgba_int(inp.c, 8) : out' = <<r>>
    /\ pc' = "hsla"
    /\ UNCHANGED inp

\* to_hsi(const Rgba<T>&), T = float.
RgbaToHsiFloat ==
    /\ pc = "rgba" /\ inp.ty = "f32"
    /\ out' = <<to_hsi_rgba(inp.c)>>
    /\ pc' = "hsia"
    /\ UNCHANGED inp

\* to_hsi(const Rgba<T>&), T = uint8_t.
RgbaToHsiInt ==
    /\ pc = "rgba" /\ inp.ty = "u8"
    /\ \E r \in to_hsi_rgba_int(inp.c, 8) : out' = <<r>>
    /\ pc' = "hsia"
    /\ UNCHANGED inp

\* to_rgb(const Hsva<T>&), T = float.
HsvaToRgbFloat ==
    /\ pc = "hsva" /\ inp.ty = "f32"
    /\ out' = Append(out, to_rgb_hsva(out[1]))
    /\ pc' = "rgba_hsv"
    /\ UNCHANGED inp

\* to_rgb(const Hsva<T>&), T = uint8_t.
HsvaToRgbInt ==
    /\ pc = "hsva" /\ inp.ty = "u8"
    /\ \E r \in to_rgb_hsva_int(out[1], 8) : out' = Append(out, r)
    /\ pc' = "rgba_hsv"
    /\ UNCHANGED inp

\* to_rgb(const Hsla<T>&), T = float.
HslaToRgbFloat ==
    /\ pc = "hsla" /\ inp.ty = "f32"
    /\ out' = Append(out, to_rgb_hsla(out[1]))
    /\ pc' = "rgba_hsl"
    /\ UNCHANGED inp

\* to_rgb(const Hsla<T>&), T = uint8_t.
HslaToRgbInt ==
    /\ pc = "hsla" /\ inp.ty = "u8"
    /\ \E r \in to_rgb_hsla_int(out[1], 8) : out' = Append(out, r)
    /\ pc' = "rgba_hsl"
    /\ UNCHANGED inp

NextWrapped ==
    \/ RgbaToHsvFloat \/ RgbaToHsvInt \/ RgbaToHsvDirect
    \/ RgbaToHslFloat \/ RgbaToHslInt
    \/ RgbaToHsiFloat \/ RgbaToHsiInt
    \/ HsvaToRgbFloat \/ HsvaToRgbInt
    \/ HslaToRgbFloat \/ HslaToRgbInt

SpecWrapped == InitWrapped /\ [][NextWrapped]_vars

(***************************************************************************)
(* to_rgb on Hsv and Hsl colours, float and uint8_t: the hue segment, the  *)
(* position in it, the case of the switch and the resulting colour.        *)
(***************************************************************************)
SectorN == 12

\* One unit in the last place of the floats of [1/2, 1).
HueStep == [s |-> 1, m |-> <<1>>, e |-> -24]

\* Normalized hues on a grid, at the segment boundaries k/6 and just below
\* them, and two hues that are not normalized.
SectorHues ==
    FGrid(SectorN) \cup {FDiv(DInt(k), DInt(6)) : k \in 1..5}
                   \cup {FSub(FDiv(DInt(k), DInt(6)), HueStep) : k \in 1..6}
                   \cup {DNeg(Half), DblLit(5, 4)}
SectorIntHues == IGrid(SectorN, 8) \cup {42, 43, 128, 213, 214}

InitSector ==
    /\ pc = "start"
    /\ \/ inp \in {[ty |-> "f32", c |-> <<h, s, x>>] :
                       h \in SectorHues, s \in {Half, One}, x \in {Half, One}}
       \/ inp \in {[ty |-> "u8", c |-> <<h, s, x>>] :
                       h \in SectorIntHues, s \in {128, 255}, x \in {128, 255}}
    /\ out = <<>>

\* to_rgb(const Hsv<T>&), T = float.
HsvToRgb ==
    /\ pc = "start" /\ inp.ty = "f32"
    /\ out' = [hue |-> inp.c[1], d |-> decompose_hue(inp.c[1]),
               case |-> HueCase(decompose_hue(inp.c[1]).seg), rgb |-> to_rgb_hsv(inp.c)]
    /\ pc' = "hsv"
    /\ UNCHANGED inp

\* to_rgb(const Hsl<T>&), T = float.
HslToRgb ==
    /\ pc = "start" /\ inp.ty = "f32"
    /\ out' = [hue |-> inp.c[1], d |-> decompose_hue(inp.c[1]),
               case |-> HueCase(decompose_hue(inp.c[1]).seg), rgb |-> to_rgb_hsl(inp.c)]
    /\ pc' = "hsl"
    /\ UNCHANGED inp

\* to_rgb(const Hsv<T>&), T = uint8_t: the colour is cast to float first.
HsvToRgbInt ==
    /\ pc = "start" /\ inp.ty = "u8"
    /\ \E r \in to_rgb_hsv_int(inp.c, 8) :
           out' = [hue |-> CastIntToFloat("p", inp.c[1], 8),
                   d |-> decompose_hue(CastIntToFloat("p", inp.c[1], 8)),
                   case |-> HueCase(decompose_hue(CastIntToFloat("p", inp.c[1], 8)).seg),
                   rgb |-> r]
    /\ pc' = "hsv"
    /\ UNCHANGED inp

\* to_rgb(const Hsl<T>&), T = uint8_t.
HslToRgbInt ==
    /\ pc = "start" /\ inp.ty = "u8"
    /\ \E r \in to_rgb_hsl_int(inp.c, 8) :
           out' = [hue |-> CastIntToFloat("p", inp.c[1], 8),
                   d |-> decompose_hue(CastIntToFloat("p", inp.c[1], 8)),
                   case |-> HueCase(decompose_hue(CastIntToFloat("p", inp.c[1], 8)).seg),
                   rgb |-> r]
    /\ pc' = "hsl"
    /\ UNCHANGED inp

NextSector == HsvToRgb \/ HslToRgb \/ HsvToRgbInt \/ HslToRgbInt

SpecSector == InitSector /\ [][NextSector]_vars

(***************************************************************************)
(* color_cast between the integer storage types of 8 and 16 bits.          *)
(***************************************************************************)
CastN == 2

CastLevels(w) ==
    IGrid(CastN, w) \cup (IF w = 8 THEN {1, 128} ELSE {257, 32896})

InitCast ==
    /\ pc = "start"
    /\ inp \in {[kind |-> k, wf |-> t[1], wt |-> t[2], c |-> <<x, y, BoundedMaxValue(t[1])>>] :
                    k \in {"rgb", "hsv"}, t \in {<<8, 16>>, <<8, 8>>},
                    x \in CastLevels(8), y \in CastLevels(8)}
          \cup {[kind |-> k, wf |-> t[1], wt |-> t[2], c |-> <<x, y, BoundedMaxValue(t[1])>>] :
                    k \in {"rgb", "hsv"}, t \in {<<16, 8>>, <<16, 16>>},
                    x \in CastLevels(16), y \in CastLevels(16)}
    /\ out = <<>>

\* color_cast<To>(const Rgb<From>&); To = From returns the argument.
CastRgb ==
    /\ pc = "start"
    /\ inp.kind = "rgb"
    /\ out' = <<IF inp.wf = inp.wt THEN inp.c
                ELSE color_cast_int_int(RgbKinds, inp.c, inp.wf, inp.wt)>>
    /\ pc' = "cast"
    /\ UNCHANGED inp

\* color_cast<To>(const Hsv<From>&).
CastHsv ==
    /\ pc = "start"
    /\ inp.kind = "hsv"
    /\ out' = <<IF inp.wf = inp.wt THEN inp.c
                ELSE color_cast_int_int(CylKinds, inp.c, inp.wf, inp.wt)>>
    /\ pc' = "cast"
    /\ UNCHANGED inp

NextCast == CastRgb \/ CastHsv

SpecCast == InitCast /\ [][NextCast]_vars

(***************************************************************************)
(* normalize() on Hsv<float> and Hsv<uint8_t>, applied twice.              *)
(***************************************************************************)
NormN == 4

\* Channel values k / NormN inside and outside [0, 1], and the float next to
\* -1.0.
NormHues ==
    {FDiv(DInt(k), DInt(NormN)) : k \in (-2 * NormN) .. (2 * NormN)}
        \cup {DNeg(DSub(One, HueStep))}
NormBounded == {FDiv(DInt(k), DInt(NormN)) : k \in (-NormN) .. (2 * NormN)}

InitNorm ==
    /\ pc = "start"
    /\ \/ inp \in {[ty |-> "f32", c |-> <<h, s, FloatLit(13, 10)>>] :
                       h \in NormHues, s \in NormBounded}
       \/ inp \in {[ty |-> "u8", c |-> <<h, s, 35>>] :
                       h \in IGrid(NormN, 8), s \in IGrid(NormN, 8)}
    /\ out = <<>>

\* The colour the next call of normalize() is applied to.
NormArg == IF out = <<>> THEN inp.c ELSE out[Len(out)]

\* CylindricalColor::normalize on Hsv<float>.
NormalizeFloat ==
    /\ pc \in {"start", "once"}
    /\ inp.ty = "f32"
    /\ out' = Append(out, <<NormalizePeriodic(NormArg[1]), NormalizeBounded(NormArg[2]),
                            NormalizeBounded(NormArg[3])>>)
    /\ pc' = IF pc = "start" THEN "once" ELSE "twice"
    /\ UNCHANGED inp

\* CylindricalColor::normalize on Hsv<uint8_t>: every channel returns value.
NormalizeInt ==
    /\ pc \in {"start", "once"}
    /\ inp.ty = "u8"
    /\ out' = Append(out, NormArg)
    /\ pc' = IF pc = "start" THEN "once" ELSE "twice"
    /\ UNCHANGED inp

NextNorm == NormalizeFloat \/ NormalizeInt

SpecNorm == InitNorm /\ [][NextNorm]_vars

(***************************************************************************)
(* Hsi<float>: to_rgb under Preserve, under Clip and with the default      *)
(* mode, then is_in_gamut.                                                 *)
(***************************************************************************)
HsiHueN == 10
HsiLevelN == 2

HsiLevels == FGrid(HsiLevelN) \cup {FloatLit(2, 5)}

InitHsi ==
    /\ pc = "start"
    /\ inp \in {<<h, s, i>> : h \in FGrid(HsiHueN), s \in HsiLevels, i \in HsiLevels}
    /\ out = <<>>

\* to_rgb(from, HsiOutOfGamutMode::Preserve).
HsiToRgbPreserve ==
    /\ pc = "start"
    /\ out' = <<to_rgb_hsi(inp, "Preserve")>>
    /\ pc' = "preserve"
    /\ UNCHANGED inp

\* to_rgb(from, HsiOutOfGamutMode::Clip).
HsiToRgbClip ==
    /\ pc = "preserve"
    /\ out' = Append(out, to_rgb_hsi(inp, "Clip"))
    /\ pc' = "clip"
    /\ UNCHANGED inp

\* to_rgb(from).
HsiToRgbDefault ==
    /\ pc = "clip"
    /\ out' = Append(out, to_rgb_hsi(inp, DefaultGamutMode))
    /\ pc' = "default"
    /\ UNCHANGED inp

\* from.is_in_gamut().
HsiIsInGamut ==
    /\ pc = "default"
    /\ out' = Append(out, is_in_gamut(inp))
    /\ pc' = "gamut"
    /\ UNCHANGED inp

NextHsi == HsiToRgbPreserve \/ HsiToRgbClip \/ HsiToRgbDefault \/ HsiIsInGamut

SpecHsi == InitHsi /\ [][NextHsi]_vars

(***************************************************************************)
(* squared_distance and distance of two integer Rgb colours.               *)
(***************************************************************************)
DistColors(w) ==
    IF w = 8 THEN
        {<<100, 200, 50>>, <<166, 125, 150>>, <<255, 255, 255>>, <<0, 0, 0>>,
         <<1, 0, 0>>}
    ELSE IF w = 16 THEN
        {<<65535, 0, 0>>, <<0, 0, 0>>, <<1000, 0, 0>>, <<30000, 30000, 30000>>,
         <<46341, 0, 0>>}
    ELSE
        {<<1, 0, 0>>, <<0, 0, 0>>, <<65536, 0, 0>>, <<100000, 0, 0>>,
         <<2147483647, 5, 5>>}

InitDistance ==
    /\ pc = "start"
    /\ inp \in {[w |-> w, a |-> c[1], b |-> c[2]] :
                    w \in {8}, c \in DistColors(8) \X DistColors(8)}
          \cup {[w |-> w, a |-> c[1], b |-> c[2]] :
                    w \in {16}, c \in DistColors(16) \X DistColors(16)}
          \cup {[w |-> w, a |-> c[1], b |-> c[2]] :
                    w \in {32}, c \in DistColors(32) \X DistColors(32)}
    /\ out = <<>>

\* a.squared_distance(b).
SquaredDistance ==
    /\ pc = "start"
    /\ \E r \in squared_distance_int(inp.a, inp.b, inp.w) : out' = <<r>>
    /\ pc' = "squared"
    /\ UNCHANGED inp

\* a.distance(b).
Distance ==
    /\ pc = "start"
    /\ \E r \in distance_int(inp.a, inp.b, inp.w) : out' = <<r>>
    /\ pc' = "distance"
    /\ UNCHANGED inp

NextDistance == SquaredDistance \/ Distance

SpecDistance == InitDistance /\ [][NextDistance]_vars

(***************************************************************************)
(* inverse() on Rgb and Hsv colours of 8 and 16 bits, applied twice.       *)
(***************************************************************************)
InvN == 8

\* Every 8-bit value; 16-bit values on a grid and around the centre.
InvLevels(w) ==
    IF w = 8 THEN 0 .. BoundedMaxValue(8)
    ELSE IGrid(InvN, 16) \cup {1, 32767, 32768, 65534}

InitInverse ==
    /\ pc = "start"
    /\ inp \in {[kind |-> k, w |-> 8, c |-> <<v, v, v>>] :
                    k \in {"rgb", "hsv"}, v \in InvLevels(8)}
          \cup {[kind |-> k, w |-> 16, c |-> <<v, v, v>>] :
                    k \in {"rgb", "hsv"}, v \in InvLevels(16)}
          \cup {[kind |-> "hsv", w |-> 8, c |-> c] :
                    c \in {<<127, 250, 50>>, <<0, 255, 130>>, <<200, 200, 100>>}}
    /\ out = <<>>

\* The colour the next call of inverse() is applied to.
InverseArg == IF out = <<>> THEN inp.c ELSE out[Len(out)]

\* Rgb<T>::inverse.
RgbInverse ==
    /\ pc \in {"start", "once"}
    /\ inp.kind = "rgb"
    /\ out' = Append(out, rgb_inverse_int(InverseArg, inp.w))
    /\ pc' = IF pc = "start" THEN "once" ELSE "twice"
    /\ UNCHANGED inp

\* Hsv<T>::inverse (CylindricalColor::inverse).
HsvInverse ==
    /\ pc \in {"start", "once"}
    /\ inp.kind = "hsv"
    /\ out' = Append(out, cyl_inverse_int(InverseArg, inp.w))
    /\ pc' = IF pc = "start" THEN "once" ELSE "twice"
    /\ UNCHANGED inp

NextInverse == RgbInverse \/ HsvInverse

SpecInverse == InitInverse /\ [][NextInverse]_vars

(***************************************************************************)
(* Angle.h: Degrees<float>::normalize and the additive operators.          *)
(***************************************************************************)
AngleN == 4

\* Degrees<T>::period_length.
DegreesPeriodLength == DInt(360)

\* Degrees<T>::normalize: std::abs(std::fmod(value, period_length())).
degrees_normalize(value) == DAbs(DFmod(value, DegreesPeriodLength))


\* operator+(Degrees<T>, Degrees<T>) and operator-.
degrees_plus(lhs, rhs) == degrees_normalize(FAdd(lhs, rhs))
degrees_minus(lhs, rhs) == degrees_normalize(FSub(lhs, rhs))

\* Multiples of a quarter turn on both sides of zero, and the angles 10,
\* 20, -10 and 370 degrees.
AngleValues ==
    {DInt(90 * k) : k \in (-AngleN) .. AngleN}
        \cup {DInt(10), DInt(20), DInt(-10), DInt(370)}

InitAngle ==
    /\ pc = "start"
    /\ inp \in {[a |-> a, b |-> b] : a \in AngleValues, b \in AngleValues}
    /\ out = <<>>

\* a.normalize().
DegNormalize ==
    /\ pc = "start"
    /\ out' = <<degrees_normalize(inp.a)>>
    /\ pc' = "normalize"
    /\ UNCHANGED inp

\* a + b.
DegPlus ==
    /\ pc = "start"
    /\ out' = <<degrees_plus(inp.a, inp.b)>>
    /\ pc' = "plus"
    /\ UNCHANGED inp

\* a - b.
DegMinus ==
    /\ pc = "start"
    /\ out' = <<degrees_minus(inp.a, inp.b)>>
    /\ pc' = "minus"
    /\ UNCHANGED inp

\* a += b: value += rhs.value; value = normalize().value.
DegPlusAssign ==
    /\ pc = "start"
    /\ out' = <<degrees_normalize(FAdd(inp.a, inp.b))>>
    /\ pc' = "plus_assign"
    /\ UNCHANGED inp

\* a -= b.
DegMinusAssign ==
    /\ pc = "start"
    /\ out' = <<degrees_normalize(FSub(inp.a, inp.b))>>
    /\ pc' = "minus_assign"
    /\ UNCHANGED inp

NextAngle == DegNormalize \/ DegPlus \/ DegMinus \/ DegPlusAssign \/ DegMinusAssign

SpecAngle == InitAngle /\ [][NextAngle]_vars

(***************************************************************************)
(* Packer.h, FlatColorPacker.h: FlatColorPacker<Rgb<uint16_t>>.  A colour *)
(* is the sequence of its channels, a buffer is a sequence of bytes, and   *)
(* an element is stored in the buffer low byte first.                      *)
(***************************************************************************)
PackLenN == 2

\* Rgb<T>::num_channels.
num_channels == 3

\* packer_index_skip.
packer_index_skip == -1

\* sizeof(ElementType) for ElementType = uint16_t.
SizeofElement == 2

\* Rgb<T>(): every channel is T(0).
DefaultColor == [i \in 1 .. num_channels |-> 0]

\* *reinterpret_cast<ElementType*>(out) = e: the bytes of one element.
StoreElement(e) == [j \in 1 .. SizeofElement |-> (e \div (256 ^ (j - 1))) % 256]

\* *reinterpret_cast<const ElementType*>(in): the element whose bytes start
\* at offset at (counted from zero) of bytes.
LoadElement(bytes, at) ==
    LET RECURSIVE Value(_)
        Value(j) ==
            IF j > SizeofElement THEN 0
            ELSE bytes[at + j] * (256 ^ (j - 1)) + Value(j + 1)
    IN  Value(1)

\* The range test of set_packing_format on one entry.
packing_index_out_of_range(elem) == elem >= num_channels \/ elem < -1

\* A set_packing_format that stores the format before it validates it.
packer_set_packing_format_store_first(m_pack_format, value) ==
    [threw |-> \E i \in 1 .. Len(value) : packing_index_out_of_range(value[i]),
     m_pack_format |-> value]

\* FlatColorPacker::set_packing_format: every entry is validated, and the
\* format is stored only when none was out of range.
packer_set_packing_format(m_pack_format, value) ==
    IF \E i \in 1 .. Len(value) : packing_index_out_of_range(value[i])
    THEN [threw |-> TRUE, m_pack_format |-> m_pack_format]
    ELSE [threw |-> FALSE, m_pack_format |-> value]

\* FlatColorPacker::packed_size.
packer_packed_size(m_pack_format) == Len(m_pack_format) * SizeofElement

\* FlatColorPacker::pack_single: one element per entry of the format, the
\* named channel or ElementType(0) for a skipped slot.
pack_single(m_pack_format, in) ==
    [k \in 1 .. packer_packed_size(m_pack_format) |->
        LET elem == m_pack_format[((k - 1) \div SizeofElement) + 1]
            e == IF elem # packer_index_skip THEN in[elem + 1] ELSE 0
        IN  StoreElement(e)[((k - 1) % SizeofElement) + 1]]

\* Every format of at most n entries over the indexes -2 .. num_channels.
FormatsUpTo(n) ==
    UNION {[1 .. len -> (-2) .. num_channels] : len \in 0 .. n}

PackColors == {<<1, 2, 3>>, <<513, 0, 65535>>}

InitPack ==
    /\ pc = "start"
    /\ inp \in {[first |-> f, second |-> s, color |-> c] :
                  f \in FormatsUpTo(PackLenN), s \in FormatsUpTo(PackLenN),
                  c \in PackColors}
    /\ out = <<>>

\* FlatColorPacker(): the format is empty.
PackerDefault ==
    /\ pc = "start"
    /\ out' = [m_pack_format |-> <<>>, from_vector |-> FALSE, set_called |-> FALSE,
               threw |-> FALSE, packed |-> <<>>, size |-> 0]
    /\ pc' = "constructed"
    /\ UNCHANGED inp

\* FlatColorPacker(pack_order): set_packing_format on the empty packer; a
\* throw leaves no object.
PackerConstruct ==
    /\ pc = "start"
    /\ LET r == packer_set_packing_format(<<>>, inp.first)
       IN  /\ out' = [m_pack_format |-> r.m_pack_format, from_vector |-> TRUE,
                      set_called |-> FALSE, threw |-> r.threw,
                      packed |-> <<>>, size |-> 0]
           /\ pc' = IF r.threw THEN "ctor_threw" ELSE "constructed"
    /\ UNCHANGED inp

\* packer.set_packing_format(second).
PackerSetFormat ==
    /\ pc = "constructed"
    /\ LET r == packer_set_packing_format(out.m_pack_format, inp.second)
       IN  out' = [out EXCEPT !.m_pack_format = r.m_pack_format,
                              !.set_called = TRUE, !.threw = r.threw]
    /\ pc' = "configured"
    /\ UNCHANGED inp

\* packer.pack_single(color, buffer) and packer.packed_size().
PackerPackSingle ==
    /\ pc \in {"constructed", "configured"}
    /\ out' = [out EXCEPT !.packed = pack_single(out.m_pack_format, inp.color),
                          !.size = packer_packed_size(out.m_pack_format)]
    /\ pc' = "packed"
    /\ UNCHANGED inp

NextPack == PackerDefault \/ PackerConstruct \/ PackerSetFormat \/ PackerPackSingle

SpecPack == InitPack /\ [][NextPack]_vars

(***************************************************************************)
(* Unpacker.h, FlatColorUnpacker.h: FlatColorUnpacker<Rgb<uint16_t>>, in   *)
(* the two versions of set_packing_format the repository holds, and the    *)
(* round trip through FlatColorPacker.                                     *)
(***************************************************************************)
UnpackLenN == 3
UnpackColorsN == 2

\* FlatColorUnpacker::set_packing_format of src/src/FlatColorUnpacker.h:
\* the format is stored as given.
unpacker_set_packing_format(m_pack_format, values) ==
    [threw |-> FALSE, m_pack_format |-> values]

\* FlatColorUnpacker::set_packing_format of the version that validates.
unpacker_set_packing_format_checked(m_pack_format, value) ==
    IF \E i \in 1 .. Len(value) : packing_index_out_of_range(value[i])
    THEN [threw |-> TRUE, m_pack_format |-> m_pack_format]
    ELSE [threw |-> FALSE, m_pack_format |-> value]

\* FlatColorUnpacker::packed_size.
unpacker_packed_size(m_pack_format) == Len(m_pack_format) * SizeofElement

\* The loop of FlatColorUnpacker::unpack_single from entry i on.  acc.color
\* is the colour written so far; acc.outside collects the indexes of the
\* writes out.data()[elem] that fall outside the colour.
RECURSIVE unpack_single_from(_, _, _, _, _)
unpack_single_from(m_pack_format, src, at, i, acc) ==
    IF i > Len(m_pack_format) THEN acc
    ELSE LET elem == m_pack_format[i]
             e == LoadElement(src, at + (i - 1) * SizeofElement)
             next == IF elem = -1 THEN acc
                     ELSE IF elem \in 0 .. num_channels - 1
                          THEN [acc EXCEPT !.color[elem + 1] = e]
                          ELSE [acc EXCEPT !.outside = @ \cup {elem}]
         IN  unpack_single_from(m_pack_format, src, at, i + 1, next)

\* FlatColorUnpacker::unpack_single(src + at, out).
unpack_single(m_pack_format, src, at, color) ==
    unpack_single_from(m_pack_format, src, at, 1,
                       [color |-> color, outside |-> {}])

\* The while loop of Unpacker::unpack from offset at on.
RECURSIVE unpack_loop(_, _, _, _)
unpack_loop(m_pack_format, src, at, acc) ==
    IF at = Len(src) THEN [acc EXCEPT !.ret = at]
    ELSE LET one == unpack_single(m_pack_format, src, at, DefaultColor)
         IN  unpack_loop(m_pack_format, src,
                         at + unpacker_packed_size(m_pack_format),
                         [acc EXCEPT !.colors = Append(@, one.color),
                                     !.outside = @ \cup one.outside])

\* A division by packed_size() = 0 traps, or the build goes on.
DivideByPackedSize(packed_size) ==
    IF packed_size = 0 THEN {"trapped", "done"} ELSE {"done"}

\* Unpacker::unpack(src, num_bytes, out) with num_bytes = Len(src): the
\* assertion evaluates num_bytes % packed_size(), then the loop runs.
unpacker_unpack(m_pack_format, src) ==
    {IF how = "trapped"
     THEN [trapped |-> TRUE, colors |-> <<>>, outside |-> {}, ret |-> 0]
     ELSE unpack_loop(m_pack_format, src, 0,
             [trapped |-> FALSE, colors |-> <<>>, outside |-> {}, ret |-> 0]) :
        how \in DivideByPackedSize(unpacker_packed_size(m_pack_format))}

\* Unpacker::unpack(src, num_bytes): the vector is sized by
\* num_bytes / packed_size() and filled through the overload above.
unpacker_unpack_vector(m_pack_format, src) ==
    UNION {IF how = "trapped"
           THEN {[trapped |-> TRUE, colors |-> <<>>, outside |-> {}, ret |-> 0]}
           ELSE unpacker_unpack(m_pack_format, src) :
              how \in DivideByPackedSize(unpacker_packed_size(m_pack_format))}

\* Packer::pack(first, last, out): pack_single for each colour in turn.
RECURSIVE packer_pack(_, _)
packer_pack(m_pack_format, colors) ==
    IF colors = <<>> THEN <<>>
    ELSE pack_single(m_pack_format, Head(colors))
            \o packer_pack(m_pack_format, Tail(colors))

\* The buffers of len bytes: the bytes counted up and counted down.
Buffers(len) == {[k \in 1 .. len |-> k], [k \in 1 .. len |-> len + 1 - k]}

InitUnpack ==
    /\ pc = "start"
    /\ inp \in {[format |-> f, buffer |-> b] :
                  f \in FormatsUpTo(UnpackLenN),
                  b \in UNION {Buffers(len) :
                                 len \in 0 .. UnpackColorsN * UnpackLenN * SizeofElement}}
    /\ Len(inp.buffer) \in {n * unpacker_packed_size(inp.format) :
                              n \in 0 .. UnpackColorsN}
    /\ out = <<>>

UnpackerState(r, from_vector) ==
    [m_pack_format |-> r.m_pack_format, from_vector |-> from_vector,
     threw |-> r.threw, colors |-> <<>>, outside |-> {}, ret |-> 0,
     trapped |-> FALSE, packer_size |-> 0, unpacker_size |-> 0,
     repacked |-> <<>>]

\* FlatColorUnpacker(): the format is empty.
UnpackerDefault ==
    /\ pc = "start"
    /\ inp.format = <<>>
    /\ out' = UnpackerState([threw |-> FALSE, m_pack_format |-> <<>>], FALSE)
    /\ pc' = "constructed"
    /\ UNCHANGED inp

\* FlatColorUnpacker(format) of src/src/FlatColorUnpacker.h.
UnpackerConstruct ==
    /\ pc = "start"
    /\ out' = UnpackerState(unpacker_set_packing_format(<<>>, inp.format), TRUE)
    /\ pc' = "constructed"
    /\ UNCHANGED inp

\* FlatColorUnpacker(format) of the validating version; a throw leaves no
\* object.
UnpackerConstructChecked ==
    /\ pc = "start"
    /\ LET r == unpacker_set_packing_format_checked(<<>>, inp.format)
       IN  /\ out' = UnpackerState(r, TRUE)
           /\ pc' = IF r.threw THEN "ctor_threw" ELSE "constructed"
    /\ UNCHANGED inp

\* unpacker.unpack_single(buffer, color) on a default-constructed colour;
\* the buffer holds at least packed_size() bytes.
UnpackSingle ==
    /\ pc = "constructed"
    /\ Len(inp.buffer) >= unpacker_packed_size(out.m_pack_format)
    /\ LET one == unpack_single(out.m_pack_format, inp.buffer, 0, DefaultColor)
       IN  out' = [out EXCEPT !.colors = <<one.color>>,
                              !.outside = one.outside,
                              !.ret = unpacker_packed_size(out.m_pack_format)]
    /\ pc' = "unpacked_single"
    /\ UNCHANGED inp

\* unpacker.unpack(buffer, num_bytes, out).
Unpack ==
    /\ pc = "constructed"
    /\ \E r \in unpacker_unpack(out.m_pack_format, inp.buffer) :
          /\ out' = [out EXCEPT !.colors = r.colors, !.outside = r.outside,
                                !.ret = r.ret, !.trapped = r.trapped]
          /\ pc' = IF r.trapped THEN "unpack_trapped" ELSE "unpacked"
    /\ UNCHANGED inp

\* unpacker.unpack(buffer, num_bytes), the overload returning a vector.
UnpackVector ==
    /\ pc = "constructed"
    /\ \E r \in unpacker_unpack_vector(out.m_pack_format, inp.buffer) :
          /\ out' = [out EXCEPT !.colors = r.colors, !.outside = r.outside,
                                !.ret = r.ret, !.trapped = r.trapped]
          /\ pc' = IF r.trapped THEN "unpack_trapped" ELSE "unpacked"
    /\ UNCHANGED inp

\* FlatColorPacker(format).pack(colors.begin(), colors.end(), buffer) on the
\* colours just unpacked, and packed_size() of the packer and the unpacker.
PackBack ==
    /\ pc = "unpacked"
    /\ LET r == packer_set_packing_format(<<>>, out.m_pack_format)
       IN  IF r.threw
           THEN /\ pc' = "pack_threw"
                /\ out' = out
           ELSE /\ pc' = "repacked"
                /\ out' = [out EXCEPT
                              !.repacked = packer_pack(r.m_pack_format, out.colors),
                              !.packer_size = packer_packed_size(r.m_pack_format),
                              !.unpacker_size = unpacker_packed_size(out.m_pack_format)]
    /\ UNCHANGED inp

NextUnpack ==
    \/ UnpackerDefault
    \/ UnpackerConstruct
    \/ UnpackerConstructChecked
    \/ UnpackSingle
    \/ Unpack
    \/ UnpackVector
    \/ PackBack

SpecUnpack == InitUnpack /\ [][NextUnpack]_vars

(***************************************************************************)
(* StreamUnpacker.h: StreamUnpacker<Rgb<uint16_t>> over a string stream    *)
(* and a FlatColorUnpacker.  A stream is its bytes, its read position and  *)
(* its eofbit and failbit.                                                 *)
(***************************************************************************)
StreamLenN == 9
StreamCountN == 3

\* std::numeric_limits<std::streamsize>::max(), here a count larger than
\* the number of records of any stream.
StreamsizeMax == (2 ^ 30 - 1) * 2 + 1

\* std::ios::good().
stream_good(stream) == ~stream.eof /\ ~stream.fail

\* std::istream::read(s, n) and gcount(): on a stream that is not good the
\* sentry sets failbit and nothing is read; otherwise the bytes left, at
\* most n, are extracted, and a short read sets eofbit and failbit.
istream_read(stream, n) ==
    IF ~stream_good(stream)
    THEN [stream |-> [stream EXCEPT !.fail = TRUE], gcount |-> 0, bytes |-> <<>>]
    ELSE LET avail == Len(stream.data) - stream.pos
             count == IF avail < n THEN avail ELSE n
         IN  [stream |-> [stream EXCEPT !.pos = @ + count,
                                        !.eof = count < n,
                                        !.fail = count < n],
              gcount |-> count,
              bytes |-> SubSeq(stream.data, stream.pos + 1, stream.pos + count)]

\* StreamUnpacker(std::unique_ptr<std::istream>, unpacker): the stream is
\* owned, m_stream_ptr points at it and the element buffer is sized.
stream_unpacker_owning(stream, format) ==
    [owned |-> TRUE, stream_ptr |-> TRUE,
     elem_buffer_size |-> unpacker_packed_size(format),
     format |-> format, stream |-> stream]

\* StreamUnpacker(std::istream&, unpacker): only m_unpacker and
\* m_stream_ptr are initialised; m_owned_stream is empty and m_elem_buffer
\* has no elements.
stream_unpacker_reference(stream, format) ==
    [owned |-> FALSE, stream_ptr |-> TRUE, elem_buffer_size |-> 0,
     format |-> format, stream |-> stream]

\* StreamUnpacker::unpack_single: get_stream() dereferences
\* m_owned_stream, which crashes when it is empty; otherwise packed_size()
\* bytes are read and the colour is unpacked only from a full read.
su_unpack_single(su, color) ==
    IF ~su.owned
    THEN [su |-> su, color |-> color, crashed |-> TRUE]
    ELSE LET color_size == unpacker_packed_size(su.format)
             r == istream_read(su.stream, color_size)
         IN  [su |-> [su EXCEPT !.stream = r.stream],
              color |-> IF r.gcount = color_size
                        THEN unpack_single(su.format, r.bytes, 0, color).color
                        ELSE color,
              crashed |-> FALSE]

\* The loop of StreamUnpacker::unpack(n, out) from iteration i on: the
\* colour is assigned through out before good() is tested, and out is
\* advanced only after a good read.
RECURSIVE su_unpack_from(_, _, _, _)
su_unpack_from(su, n, i, written) ==
    IF i >= n
    THEN [su |-> su, written |-> written, ret |-> n, out_pos |-> i,
          crashed |-> FALSE]
    ELSE LET one == su_unpack_single(su, DefaultColor)
         IN  IF one.crashed
             THEN [su |-> su, written |-> written, ret |-> 0, out_pos |-> i,
                   crashed |-> TRUE]
             ELSE IF ~stream_good(one.su.stream)
                  THEN [su |-> one.su, written |-> Append(written, one.color),
                        ret |-> i, out_pos |-> i, crashed |-> FALSE]
                  ELSE su_unpack_from(one.su, n, i + 1,
                                      Append(written, one.color))

\* StreamUnpacker::unpack(n, out).
su_unpack(su, n) == su_unpack_from(su, n, 0, <<>>)

\* StreamUnpacker::unpack_all(out).
su_unpack_all(su) == su_unpack(su, StreamsizeMax)

StreamFormats == {<<0, 1, 2>>, <<2, -1>>, <<1>>}

InitStreamIn ==
    /\ pc = "start"
    /\ inp \in {[format |-> f, data |-> d, failed |-> e, n |-> n, color |-> <<7, 8, 9>>] :
                  f \in StreamFormats,
                  d \in UNION {Buffers(len) : len \in 0 .. StreamLenN},
                  e \in BOOLEAN, n \in 0 .. StreamCountN}
    /\ out = <<>>

\* The stream handed to the constructor.
GivenStream == [data |-> inp.data, pos |-> 0, eof |-> FALSE, fail |-> inp.failed]

StreamUnpackerState(su) ==
    [su |-> su, op |-> "none", before |-> su.stream, color |-> inp.color,
     written |-> <<>>, ret |-> 0, out_pos |-> 0]

\* StreamUnpacker(std::move(stream_ptr), std::move(unpacker)).
SuConstructOwning ==
    /\ pc = "start"
    /\ out' = StreamUnpackerState(stream_unpacker_owning(GivenStream, inp.format))
    /\ pc' = "ready"
    /\ UNCHANGED inp

\* StreamUnpacker(stream, std::move(unpacker)).
SuConstructReference ==
    /\ pc = "start"
    /\ out' = StreamUnpackerState(stream_unpacker_reference(GivenStream, inp.format))
    /\ pc' = "ready"
    /\ UNCHANGED inp

\* stream_unpacker >> color.
SuUnpackSingle ==
    /\ pc = "ready"
    /\ LET r == su_unpack_single(out.su, inp.color)
       IN  /\ out' = [out EXCEPT !.su = r.su, !.op = "unpack_single",
                                 !.before = out.su.stream, !.color = r.color,
                                 !.written = <<>>, !.ret = 0, !.out_pos = 0]
           /\ pc' = IF r.crashed THEN "crashed" ELSE "ready"
    /\ UNCHANGED inp

\* stream_unpacker.unpack(n, out).
SuUnpack ==
    /\ pc = "ready"
    /\ LET r == su_unpack(out.su, inp.n)
       IN  /\ out' = [out EXCEPT !.su = r.su, !.op = "unpack",
                                 !.before = out.su.stream, !.color = inp.color,
                                 !.written = r.written, !.ret = r.ret,
                                 !.out_pos = r.out_pos]
           /\ pc' = IF r.crashed THEN "crashed" ELSE "ready"
    /\ UNCHANGED inp

\* stream_unpacker.unpack_all(out).
SuUnpackAll ==
    /\ pc = "ready"
    /\ LET r == su_unpack_all(out.su)
       IN  /\ out' = [out EXCEPT !.su = r.su, !.op = "unpack_all",
                                 !.before = out.su.stream, !.color = inp.color,
                                 !.written = r.written, !.ret = r.ret,
                                 !.out_pos = r.out_pos]
           /\ pc' = IF r.crashed THEN "crashed" ELSE "ready"
    /\ UNCHANGED inp

\* stream_unpacker.unpack_all(): the colours appended through
\* std::back_inserter are the vector returned.
SuUnpackAllVector ==
    /\ pc = "ready"
    /\ LET r == su_unpack_all(out.su)
       IN  /\ out' = [out EXCEPT !.su = r.su, !.op = "unpack_all_vector",
                                 !.before = out.su.stream, !.color = inp.color,
                                 !.written = r.written, !.ret = Len(r.written),
                                 !.out_pos = r.out_pos]
           /\ pc' = IF r.crashed THEN "crashed" ELSE "ready"
    /\ UNCHANGED inp

NextStreamIn ==
    \/ SuConstructOwning
    \/ SuConstructReference
    \/ SuUnpackSingle
    \/ SuUnpack
    \/ SuUnpackAll
    \/ SuUnpackAllVector

SpecStreamIn == InitStreamIn /\ [][NextStreamIn]_vars

(***************************************************************************)
(* StreamPacker.h: StreamPacker<Rgb<uint16_t>> over a string stream and a  *)
(* FlatColorPacker.                                                        *)
(***************************************************************************)
OutCallsN == 3

\* std::ostream::write(s, n) on a string stream: the bytes are appended to
\* a good stream; on a stream that is not good the sentry sets failbit and
\* nothing is written.
ostream_write(stream, bytes) ==
    IF stream.fail THEN stream
    ELSE [stream EXCEPT !.data = @ \o bytes]

\* StreamPacker(std::unique_ptr<std::ostream>, packer): the stream is
\* owned, m_stream_ptr points at it and the element buffer is sized.
stream_packer_owning(stream, format) ==
    [owned |-> TRUE, stream_ptr |-> TRUE,
     elem_buffer_size |-> packer_packed_size(format),
     format |-> format, stream |-> stream]

\* StreamPacker(std::ostream&, packer): only m_stream_ptr and m_packer are
\* initialised; m_elem_buffer has no elements.
stream_packer_reference(stream, format) ==
    [owned |-> FALSE, stream_ptr |-> TRUE, elem_buffer_size |-> 0,
     format |-> format, stream |-> stream]

\* pack_single into m_elem_buffer.data(): inside the buffer when it holds
\* packed_size() bytes; otherwise the write goes through the data pointer
\* of an empty vector and crashes, or lands past the buffer.
ElemBufferWrite(elem_buffer_size, packed_size) ==
    IF packed_size <= elem_buffer_size THEN {"written"}
    ELSE {"crashed", "overflowed"}

\* StreamPacker::pack_single: the colour is packed into the element buffer
\* and packed_size() bytes of it are written to the stream.
sp_pack_single(sp, color) ==
    {[sp |-> IF how = "crashed" THEN sp
             ELSE [sp EXCEPT !.stream = ostream_write(sp.stream,
                                           pack_single(sp.format, color))],
      crashed |-> how = "crashed",
      overflowed |-> how = "overflowed"] :
        how \in ElemBufferWrite(sp.elem_buffer_size, packer_packed_size(sp.format))}

\* StreamPacker::pack(first, last): pack_single for each colour in turn; a
\* crash ends the run.
RECURSIVE sp_pack(_, _)
sp_pack(sp, colors) ==
    IF colors = <<>> THEN {[sp |-> sp, crashed |-> FALSE, overflowed |-> FALSE]}
    ELSE UNION {IF one.crashed THEN {one}
                ELSE {[rest EXCEPT !.overflowed = @ \/ one.overflowed] :
                         rest \in sp_pack(one.sp, Tail(colors))} :
                   one \in sp_pack_single(sp, Head(colors))}

\* StreamPacker::release_stream: m_stream_ptr is cleared and the owned
\* stream, empty for a referenced stream, is returned.
sp_release_stream(sp) ==
    [sp |-> [sp EXCEPT !.stream_ptr = FALSE, !.owned = FALSE],
     released |-> sp.owned]

OutFormats == {<<0, 1, 2>>, <<2, -1>>, <<>>}

OutColors == {<<>>, <<<<1, 2, 3>>>>, <<<<1, 2, 3>>, <<513, 0, 65535>>>>}

InitStreamOut ==
    /\ pc = "start"
    /\ inp \in {[format |-> f, colors |-> cs, single |-> c, failed |-> e] :
                  f \in OutFormats, cs \in OutColors,
                  c \in {<<55, 110, 235>>, <<0, 0, 0>>}, e \in BOOLEAN}
    /\ out = <<>>

\* The stream handed to the constructor.
GivenOutStream == [data |-> <<>>, fail |-> inp.failed]

StreamPackerState(sp) ==
    [sp |-> sp, owning |-> sp.owned, calls |-> 0, packed |-> <<>>,
     overflowed |-> FALSE, released |-> FALSE]

\* StreamPacker(std::move(stream_ptr), std::move(packer)).
SpConstructOwning ==
    /\ pc = "start"
    /\ out' = StreamPackerState(stream_packer_owning(GivenOutStream, inp.format))
    /\ pc' = "ready"
    /\ UNCHANGED inp

\* StreamPacker(stream, std::move(packer)).
SpConstructReference ==
    /\ pc = "start"
    /\ out' = StreamPackerState(stream_packer_reference(GivenOutStream, inp.format))
    /\ pc' = "ready"
    /\ UNCHANGED inp

\* stream_packer << single.
SpPackSingle ==
    /\ pc = "ready"
    /\ out.calls < OutCallsN
    /\ \E r \in sp_pack_single(out.sp, inp.single) :
          /\ out' = [out EXCEPT !.sp = r.sp, !.calls = @ + 1,
                                !.packed = Append(@, inp.single),
                                !.overflowed = @ \/ r.overflowed]
          /\ pc' = IF r.crashed THEN "crashed" ELSE "ready"
    /\ UNCHANGED inp

\* stream_packer.pack(colors.begin(), colors.end()).
SpPack ==
    /\ pc = "ready"
    /\ out.calls < OutCallsN
    /\ \E r \in sp_pack(out.sp, inp.colors) :
          /\ out' = [out EXCEPT !.sp = r.sp, !.calls = @ + 1,
                                !.packed = @ \o inp.colors,
                                !.overflowed = @ \/ r.overflowed]
          /\ pc' = IF r.crashed THEN "crashed" ELSE "ready"
    /\ UNCHANGED inp

\* stream_packer.release_stream().
SpReleaseStream ==
    /\ pc = "ready"
    /\ LET r == sp_release_stream(out.sp)
       IN  out' = [out EXCEPT !.sp = r.sp, !.released = r.released]
    /\ pc' = "released"
    /\ UNCHANGED inp

NextStreamOut ==
    \/ SpConstructOwning
    \/ SpConstructReference
    \/ SpPackSingle
    \/ SpPack
    \/ SpReleaseStream

SpecStreamOut == InitStreamOut /\ [][NextStreamOut]_vars

(***************************************************************************)
(* Hsv.h, Rgb.h: the chroma of a float HSV colour and of its conversion to *)
(* RGB.                                                                    *)
(***************************************************************************)
ChromaHueN == 12
ChromaLevelN == 10

\* A chroma that is the saturation alone.
chroma_hsv_saturation(color) == color[2]

\* chroma(const Hsv<T>&): saturation * value.
chroma_hsv(color) == FMul(color[2], color[3])

\* chroma(const Rgb<T>&): max - min of the three channels.
chroma_rgb(color) ==
    FSub(DMax(color[1], DMax(color[2], color[3])),
         DMin(color[1], DMin(color[2], color[3])))

InitChroma ==
    /\ pc = "start"
    /\ inp \in {[c |-> <<h, s, v>>] :
                  h \in FGrid(ChromaHueN), s \in FGrid(ChromaLevelN),
                  v \in FGrid(ChromaLevelN)}
    /\ out = <<>>

\* to_rgb(c), chroma(to_rgb(c)) and chroma(c).
HsvChroma ==
    /\ pc = "start"
    /\ out' = [rgb |-> to_rgb_hsv(inp.c),
               chroma_rgb |-> chroma_rgb(to_rgb_hsv(inp.c)),
               chroma_hsv |-> chroma_hsv(inp.c)]
    /\ pc' = "chroma"
    /\ UNCHANGED inp

NextChroma == HsvChroma

SpecChroma == InitChroma /\ [][NextChroma]_vars

(***************************************************************************)
(* The properties checked of the specifications above.                    *)
(***************************************************************************)
\* The fully opaque alpha of the colour type of inp.
OpaqueAlpha == IF inp.ty = "u8" THEN BoundedMaxValue(8) ELSE One

\* Two colours of the type of inp agree: integer channels differ by at most
\* one step, float channels by at most FLOAT_EPSILON.
SameColor(a, b) ==
    \A i \in 1..3 :
        IF inp.ty = "u8" THEN a[i] - b[i] \in -1..1 ELSE Near(a[i], b[i], FLOAT_EPSILON)

\* C11: alpha_blend(Alpha src, Color dest) returns a fully opaque result whose
\* colour is that of alpha_blend(src, Alpha(dest, fully opaque)), for float
\* and for integer storage.
C11_OpaqueOverloadIsBlend ==
    (pc = "opaque" /\ inp.dest[2] = OpaqueAlpha) =>
        /\ out[2][2] = OpaqueAlpha
        /\ SameColor(out[2][1], out[1][1])

\* The output alpha alpha_blend computes for inp, in normalized units.
BlendOutAlpha ==
    IF inp.ty = "u8"
    THEN FAdd(to_float_channel(inp.src[2], 8),
              FMul(to_float_channel(inp.dest[2], 8), FSub(One, to_float_channel(inp.src[2], 8))))
    ELSE FAdd(inp.src[2], FMul(inp.dest[2], FSub(One, inp.src[2])))

\* The all-zero broadcast and the zero alpha of the colour type of inp.
ZeroColor == IF inp.ty = "u8" THEN <<0, 0, 0>> ELSE <<DZero, DZero, DZero>>
ZeroAlpha == IF inp.ty = "u8" THEN 0 ELSE DZero

\* C12 as stated: whenever the computed output alpha of alpha_blend is at most
\* FLOAT_EPSILON, the result colour is the all-zero broadcast and the result
\* alpha is 0.
C12_TransparentIsZero ==
    (pc # "start" /\ DLe(BlendOutAlpha, FLOAT_EPSILON)) =>
        /\ out[1][1] = ZeroColor
        /\ out[1][2] = ZeroAlpha

\* C12 amended: whenever the computed output alpha of alpha_blend is at most
\* FLOAT_EPSILON, the result colour is the all-zero broadcast; the result
\* alpha is 0 for integer storage and the computed output alpha itself, which
\* need not be 0, for float storage.
C12_TransparentIsBlack ==
    (pc # "start" /\ DLe(BlendOutAlpha, FLOAT_EPSILON)) =>
        /\ out[1][1] = ZeroColor
        /\ out[1][2] = (IF inp.ty = "u8" THEN 0 ELSE BlendOutAlpha)

\* A blend of a barely visible source over a transparent destination.
C12_Witness ==
    /\ pc = "blended"
    /\ inp.ty = "f32"
    /\ inp.src[2] = TinyAlpha
    /\ inp.dest[2] = DZero
    /\ DLe(BlendOutAlpha, FLOAT_EPSILON)
    /\ out[1][1] = ZeroColor

\* The conversions of the inner colour of inp that the stage pc can yield.
InnerFromRgb ==
    IF inp.ty = "f32"
    THEN {IF pc = "hsva" THEN to_hsv(inp.c[1])
          ELSE IF pc = "hsla" THEN to_hsl(inp.c[1]) ELSE to_hsi(inp.c[1])}
    ELSE IF pc = "hsva" THEN to_hsv_int(inp.c[1], 8)
    ELSE IF pc = "hsva_direct" THEN to_hsv_direct(inp.c[1], 8)
    ELSE IF pc = "hsla" THEN to_hsl_int(inp.c[1], 8)
    ELSE to_hsi_int(inp.c[1], 8)

\* The conversions back to RGB of the inner colour of out[1].
InnerToRgb ==
    IF inp.ty = "f32"
    THEN {IF pc = "rgba_hsv" THEN to_rgb_hsv(out[1][1]) ELSE to_rgb_hsl(out[1][1])}
    ELSE IF pc = "rgba_hsv" THEN to_rgb_hsv_int(out[1][1], 8)
    ELSE to_rgb_hsl_int(out[1][1], 8)

MaxOf(c) == IF c[1] >= c[2] /\ c[1] >= c[3] THEN c[1] ELSE IF c[2] >= c[3] THEN c[2] ELSE c[3]
MinOf(c) == IF c[1] <= c[2] /\ c[1] <= c[3] THEN c[1] ELSE IF c[2] <= c[3] THEN c[2] ELSE c[3]
RealHueSixths(c, ch) ==
    IF MaxOf(c) = c[1] THEN (IF c[2] >= c[3] THEN c[2] - c[3] ELSE 6 * ch + c[2] - c[3])
    ELSE IF MaxOf(c) = c[2] THEN 2 * ch + c[3] - c[1]
    ELSE 4 * ch + c[1] - c[2]
RealHue256(c) ==
    IF MaxOf(c) = MinOf(c) THEN 0
    ELSE (RealHueSixths(c, MaxOf(c) - MinOf(c)) * 256) \div (6 * (MaxOf(c) - MinOf(c)))
RealSat255(c) == IF MaxOf(c) = 0 THEN 0 ELSE (255 * (MaxOf(c) - MinOf(c))) \div MaxOf(c)

\* The state after to_hsv (either integral overload) on a uint8 colour.
AfterToHsv8 == pc \in {"hsva", "hsva_direct"} /\ inp.ty = "u8"

\* The two scenarios: RGB(57,121,77) -> HSV(98,134,121) and
\* RGBA(100,200,0,200) -> HSVA(64,255,200,200).
HsvScenarios ==
    /\ inp.c[1] = <<57, 121, 77>> => out[1][1] = <<98, 134, 121>>
    /\ inp.c = <<<<100, 200, 0>>, 200>> => out[1] = <<<<64, 255, 200>>, 200>>

\* C14 as stated: for uint8 RGB input, to_hsv returns value equal to the
\* maximum channel, hue equal to the real-valued hue scaled by 256 and
\* truncated, and saturation equal to the real-valued saturation scaled by 255
\* and truncated; the two scenarios hold exactly.
C14_ToHsvIsTruncatedReal ==
    AfterToHsv8 =>
        /\ out[1][1][3] = MaxOf(inp.c[1])
        /\ out[1][1][1] = RealHue256(inp.c[1])
        /\ out[1][1][2] = RealSat255(inp.c[1])
        /\ HsvScenarios

\* C14 amended: value equals the maximum channel exactly; hue and saturation
\* equal the truncated real-valued hue and saturation or are one step below
\* them; the two scenarios hold exactly.
C14_ToHsvWithinOneStep ==
    AfterToHsv8 =>
        /\ out[1][1][3] = MaxOf(inp.c[1])
        /\ RealHue256(inp.c[1]) - out[1][1][1] \in {0, 1}
        /\ RealSat255(inp.c[1]) - out[1][1][2] \in {0, 1}
        /\ HsvScenarios

\* RGB(0,1,4) has the real hue 5/8, which scales to 160 exactly; the
\* conversion's hue is 159.
C14_Witness ==
    /\ AfterToHsv8
    /\ inp.c[1] = <<0, 1, 4>>
    /\ RealHue256(inp.c[1]) = 160
    /\ out[1][1] = <<159, 255, 4>>

\* C15: for integer RGB input, to_hsi returns the HSI colour obtained by
\* upcasting to float, applying the floating-point RGB -> HSI transform and
\* downcasting the result.
C15_ToHsiIntIsCastOfFloatHsi ==
    (pc = "hsia" /\ inp.ty = "u8") =>
        out[1][1] \in color_cast_float_int(CylKinds,
                          to_hsi(color_cast_int_float(RgbKinds, inp.c[1], 8)), 8)

\* C16: for every Hsv or Hsl colour whose hue is normalized (in [0,1], given
\* directly or reached through the integer overload's upcast), the hue
\* segment is in 0..6 with the position in the segment in [0,1), and to_rgb
\* does not take the default case of its switch.
C16_NormalizedHueHasSector ==
    (pc \in {"hsv", "hsl"} /\ DLe(DZero, out.hue) /\ DLe(out.hue, One)) =>
        /\ out.d.seg \in 0..6
        /\ DLe(DZero, out.d.frac) /\ DLt(out.d.frac, One)
        /\ out.case # -2

\* The hue 1.0: segment 6, handled by the case of segment 5.
C16_Witness ==
    /\ pc = "hsv"
    /\ inp.ty = "f32"
    /\ inp.c[1] = One
    /\ out.d.seg = 6
    /\ out.case = 5

\* The hues of inp as numbers, the hue of the result, and half the period.
LerpStart == IF inp.ty = "u8" THEN DInt(inp.c[1]) ELSE inp.c[1]
LerpEnd == IF inp.ty = "u8" THEN DInt(inp.c2[1]) ELSE inp.c2[1]
LerpOut == IF inp.ty = "u8" THEN DInt(out[1]) ELSE out[1]
LerpHalfPeriod == IF inp.ty = "u8" THEN DInt(PeriodicIntCenterValue(8)) ELSE Half

\* The distance of the two hues is exactly half the period.
LerpTie == DAbs(DSub(LerpEnd, LerpStart)) = LerpHalfPeriod

\* C17 as stated: when |end - start| is exactly half the period, circular lerp
\* interpolates in the increasing-value direction for both orderings: the
\* result lies on the arc that leaves start upwards, which for start > end
\* wraps around the end of the period.
C17_TieGoesClockwise ==
    (pc = "done" /\ LerpTie) =>
        IF DLe(LerpStart, LerpEnd)
        THEN DLe(LerpStart, LerpOut) /\ DLe(LerpOut, LerpEnd)
        ELSE DLe(LerpStart, LerpOut) \/ DLe(LerpOut, LerpEnd)

\* C17 amended: when |end - start| is exactly half the period, circular lerp
\* does not wrap: the result lies between the two hues, at their midpoint
\* for position 1/2, whichever of start and end is the larger.
C17_TieDoesNotWrap ==
    (pc = "done" /\ LerpTie) =>
        /\ DLe(DMin(LerpStart, LerpEnd), LerpOut)
        /\ DLe(LerpOut, DMax(LerpStart, LerpEnd))
        /\ inp.pos = Half => LerpOut = DMul(Half, DAdd(LerpStart, LerpEnd))

\* The uint8 hues 200 and 72, 128 apart, at position 1/2: the result is 136.
C17_Witness ==
    /\ pc = "done"
    /\ inp.ty = "u8"
    /\ inp.c[1] = 200 /\ inp.c2[1] = 72
    /\ inp.pos = Half
    /\ LerpTie
    /\ out[1] = 136

\* The channels of a colour of inp's kind that are bounded channels.
BoundedIndexes == IF inp.kind = "rgb" THEN {1, 2, 3} ELSE {2, 3}

\* C18: for an integral BoundedChannel, inverse() equals max_value - v for
\* every v, so that inverse(inverse(c)) = c; Rgb<uint8_t>(0,0,0).inverse() is
\* (255,255,255) and Rgb<uint8_t>(127,127,127).inverse() is (128,128,128).
C18_BoundedInverseIsMaxMinus ==
    /\ pc = "once" =>
           /\ \A i \in BoundedIndexes : out[1][i] = BoundedMaxValue(inp.w) - inp.c[i]
           /\ (inp.kind = "rgb" /\ inp.w = 8 /\ inp.c = <<0, 0, 0>>) => out[1] = <<255, 255, 255>>
           /\ (inp.kind = "rgb" /\ inp.w = 8 /\ inp.c = <<127, 127, 127>>) => out[1] = <<128, 128, 128>>
    /\ pc = "twice" => \A i \in BoundedIndexes : out[2][i] = inp.c[i]

\* Rgb<uint8_t>(127,127,127) inverted twice.
C18_Witness ==
    /\ pc = "twice"
    /\ inp = [kind |-> "rgb", w |-> 8, c |-> <<127, 127, 127>>]
    /\ out = <<<<128, 128, 128>>, <<127, 127, 127>>>>

TrueSumOfSquares ==
    sum_of_squares(DInt(inp.a[1] - inp.b[1]), DInt(inp.a[2] - inp.b[2]),
                   DInt(inp.a[3] - inp.b[3]))

\* Three times x is the sum of the squared true differences, to the precision
\* of a float (a relative error of 2^-20).
IsMeanOfSquares(x) ==
    /\ x.s # 0
    /\ DLe(DAbs(DSub(DMul(DInt(3), x), TrueSumOfSquares)),
           DMul(TrueSumOfSquares, [s |-> 1, m |-> <<1>>, e |-> -20]))

\* C20: for integer Rgb colours of 8, 16 and 32 bits, squared_distance(a, b)
\* is the mean of the squared true channel differences, with no wrap-around
\* or overflow, and is symmetric in a and b; distance is its square root, a
\* floating point number.
C20_SquaredDistanceIsMeanOfSquares ==
    /\ squared_distance_int(inp.a, inp.b, inp.w) = squared_distance_int(inp.b, inp.a, inp.w)
    /\ pc = "squared" => IsMeanOfSquares(out[1])
    /\ pc = "distance" => /\ out[1].s = 1 \/ out[1] = DZero
                          /\ IsMeanOfSquares(DMul(out[1], out[1]))

\* The tolerance of the round trip claims, 1e-5.
RoundTripTolerance == DblLit(1, 100000)

\* C1: for every float Rgb colour c with channels in [0,1], to_rgb(to_hsv(c))
\* equals c within 1e-5 on each channel, and to_hsv(to_rgb(to_hsv(c))) equals
\* to_hsv(c) within the same tolerance.
C1_FloatRoundTrip ==
    /\ pc = "back" => \A i \in 1..3 : Near(out[2][i], inp[i], RoundTripTolerance)
    /\ pc = "again" => \A i \in 1..3 : Near(out[3][i], out[1][i], RoundTripTolerance)

\* C4: for every pair of colours c, c2 (integer hues equal to the maximum
\* value included), c.lerp(c2, 0.0) = c and c.lerp(c2, 1.0) = c2 exactly.
C4_LerpEndpointsExact ==
    pc = "done" =>
        /\ inp.pos = DZero => out = inp.c
        /\ inp.pos = One => out = inp.c2

\* C5: in HSV -> RGB and HSL -> RGB a colour whose hue is exactly at the wrap
\* point (hue 1.0, sector index 6) converts to the same RGB as the same colour
\* with hue 0.0.
C5_WrapPointIsSectorZero ==
    (inp.ty = "f32" /\ inp.c[1] = One) =>
        /\ pc = "hsv" => out.rgb = to_rgb_hsv(<<DZero, inp.c[2], inp.c[3]>>)
        /\ pc = "hsl" => out.rgb = to_rgb_hsl(<<DZero, inp.c[2], inp.c[3]>>)

\* The alpha of 'src over dest' for the float inputs of inp, exactly:
\* src.alpha + dest.alpha * (1 - src.alpha).
OverAlpha == DAdd(inp.src[2], DMul(inp.dest[2], DSub(One, inp.src[2])))

\* Channel i of the premultiplied 'src over dest' colour, exactly:
\* src.c * src.alpha + dest.c * dest.alpha * (1 - src.alpha).
OverPremultiplied(i) ==
    DAdd(DMul(inp.src[1][i], inp.src[2]),
         DMul(DMul(inp.dest[1][i], inp.dest[2]), DSub(One, inp.src[2])))

\* C10: alpha_blend(src, dest) on float Alpha colours is the unpremultiplied
\* 'src over dest' composite: out.alpha = src.alpha + dest.alpha * (1 -
\* src.alpha) and, whenever out.alpha is not close to 0, each channel times
\* out.alpha is src.c * src.alpha + dest.c * dest.alpha * (1 - src.alpha),
\* within FLOAT_EPSILON.
C10_BlendIsSrcOverDest ==
    (pc = "blended" /\ inp.ty = "f32") =>
        /\ Near(out[1][2], OverAlpha, FLOAT_EPSILON)
        /\ DLt(FLOAT_EPSILON, OverAlpha) =>
               \A i \in 1..3 :
                   Near(DMul(out[1][1][i], OverAlpha), OverPremultiplied(i), FLOAT_EPSILON)

\* The largest channel difference between the colour of inp and the colour
\* the round trip returned.
IntRoundTripError(bound) ==
    \A i \in 1..3 : out[2][i] - inp.c[i] \in -bound..bound

ModPeriodRem(r, period) == IF r.s = -1 THEN DAdd(r, period) ELSE r
ModPeriod(x, period) == ModPeriodRem(DFmod(x, period), period)

\* x lies in [0, len] on the circle, to the tolerance tol.
WithinArc(x, len, period, tol) ==
    DLe(x, DAdd(len, tol)) \/ DLe(DSub(period, tol), x)

\* r lies on the shorter of the two arcs between start and end; d is the
\* length of the arc from start forward to end.  Arcs whose lengths differ
\* by no more than the tolerance are both shortest.
OnShorterArcOf(start, r, d, period, tol) ==
    \/ /\ DLe(DMul(DInt(2), d), DAdd(period, tol))
       /\ WithinArc(ModPeriod(DSub(r, start), period), d, period, tol)
    \/ /\ DLe(DSub(period, tol), DMul(DInt(2), d))
       /\ WithinArc(ModPeriod(DSub(start, r), period), DSub(period, d), period, tol)

OnShorterArc(start, end, r, period, tol) ==
    OnShorterArcOf(start, r, ModPeriod(DSub(end, start), period), period, tol)

\* C3: periodic lerp never takes the long way around: for every start hue,
\* end hue and pos in [0,1], float and integer, the result lies on the
\* shorter arc of the hue circle between start and end (to FLOAT_EPSILON for
\* float hues); 0.1 to 0.9 at pos 0.5 gives a hue close to 0.0 and the uint8
\* hues 50 to 205 at 0.5 give 0.
C3_LerpOnShorterArc ==
    pc = "done" =>
        IF inp.ty = "u8"
        THEN /\ OnShorterArc(DInt(inp.c[1]), DInt(inp.c2[1]), DInt(out[1]), DInt(256), DZero)
             /\ (inp.c[1] = 50 /\ inp.c2[1] = 205 /\ inp.pos = Half) => out[1] = 0
        ELSE /\ OnShorterArc(inp.c[1], inp.c2[1], out[1], One, FLOAT_EPSILON)
             /\ (inp.c[1] = FloatLit(1, 10) /\ inp.c2[1] = FloatLit(9, 10) /\ inp.pos = Half) =>
                    WithinArc(ModPeriod(out[1], One), DZero, One, FLOAT_EPSILON)

\* The uint8 hues 50 to 205 at pos 0.5: the result wraps through 0.
C3_Witness ==
    /\ pc = "done"
    /\ inp.ty = "u8" /\ inp.c[1] = 50 /\ inp.c2[1] = 205 /\ inp.pos = Half
    /\ out[1] = 0

\* C6: color_cast between two integer storage types maps each bounded channel
\* value v to v * (To max) / (From max) truncated, widening and narrowing, so
\* that 0 maps to 0 and the source maximum to the target maximum (uint8 0x80
\* to uint16 0x8080, uint16 0xFFFF to uint8 0xFF).
C6_IntCastScalesByMaxima ==
    pc = "cast" =>
        \A i \in BoundedIndexes :
            /\ out[1][i] = (IF inp.wf = inp.wt THEN inp.c[i]
                            ELSE (inp.c[i] * BoundedMaxValue(inp.wt)) \div BoundedMaxValue(inp.wf))
            /\ inp.c[i] = 0 => out[1][i] = 0
            /\ inp.c[i] = BoundedMaxValue(inp.wf) => out[1][i] = BoundedMaxValue(inp.wt)
            /\ (inp.wf = 8 /\ inp.wt = 16 /\ inp.c[i] = 128) => out[1][i] = 32896

\* C7: normalize() is idempotent, normalize(normalize(c)) = normalize(c);
\* after one normalize every bounded float channel is in [0,1], every float
\* hue is in [0,1), and integer channels are unchanged.
C7_NormalizeIsIdempotent ==
    /\ pc = "twice" => out[2] = out[1]
    /\ (pc = "once" /\ inp.ty = "u8") => out[1] = inp.c
    /\ (pc = "once" /\ inp.ty = "f32") =>
           /\ DLe(DZero, out[1][1]) /\ DLt(out[1][1], One)
           /\ \A i \in {2, 3} : DLe(DZero, out[1][i]) /\ DLe(out[1][i], One)

\* C8: to_rgb(h, Clip) is the channel-wise minimum of to_rgb(h, Preserve) and
\* 1.0, and the mode defaults to Clip; HSI(0,1,1) gives RGB(3,0,0) under
\* Preserve and RGB(1,0,0) under Clip.
C8_ClipIsMinOfPreserve ==
    /\ pc \in {"clip", "default", "gamut"} =>
           /\ \A i \in 1..3 : out[2][i] = DMin(out[1][i], One)
           /\ inp = <<DZero, One, One>> =>
                  /\ out[1] = <<DInt(3), DZero, DZero>>
                  /\ out[2] = <<One, DZero, DZero>>
    /\ pc \in {"default", "gamut"} => out[3] = out[2]

\* HSI(0,1,1) converted under both modes and with the default.
C8_Witness ==
    /\ pc = "default"
    /\ inp = <<DZero, One, One>>
    /\ out = <<<<DInt(3), DZero, DZero>>, <<One, DZero, DZero>>, <<One, DZero, DZero>>>>

\* The tolerance of is_in_gamut on the RGB channels, 0.015.
GamutTolerance == DblLit(15, 1000)

\* C9: for every Hsi<float> colour with hue, saturation and intensity in
\* [0,1], is_in_gamut() agrees, within 0.015 on the RGB channels, with
\* 'to_rgb(colour, Preserve) has every channel <= 1.0'.
C9_InGamutAgreesWithPreserve ==
    pc = "gamut" =>
        /\ out[4] => \A i \in 1..3 : DLe(out[1][i], DAdd(One, GamutTolerance))
        /\ ~out[4] => \E i \in 1..3 : DLe(DSub(One, GamutTolerance), out[1][i])

\* The angle the operation of the stage pc computes before it wraps.
AngleUnwrapped ==
    IF pc = "normalize" THEN inp.a
    ELSE IF pc \in {"plus", "plus_assign"} THEN DAdd(inp.a, inp.b)
    ELSE DSub(inp.a, inp.b)

\* C21: Degrees::normalize() wraps any angle, negative ones included, into
\* the first period: the result r satisfies 0 <= r < 360 and is congruent to
\* the input modulo 360; subtraction, addition, += and -= yield the wrapped
\* result (10 - 20 = 350 degrees).
C21_DegreesWrapIntoFirstPeriod ==
    pc # "start" =>
        /\ DLe(DZero, out[1]) /\ DLt(out[1], DegreesPeriodLength)
        /\ ModPeriod(DSub(out[1], AngleUnwrapped), DegreesPeriodLength) = DZero
        /\ (pc = "minus" /\ inp.a = DInt(10) /\ inp.b = DInt(20)) => out[1] = DInt(350)

\* A format with an entry the claim calls invalid: one that is at least
\* num_channels or below -1.
HasInvalidEntry(format) ==
    \E i \in 1 .. Len(format) : format[i] >= num_channels \/ format[i] < -1

\* The format the packer held before set_packing_format was called.
FormatBeforeSet == IF out.from_vector THEN inp.first ELSE <<>>

\* The format the packer is to use: the last one that was accepted.
FormatInUse ==
    IF out.set_called /\ ~HasInvalidEntry(inp.second) THEN inp.second
    ELSE FormatBeforeSet

C23_UnpackerRejectsInvalidFormat ==
    (pc # "start" /\ out.from_vector)
        => /\ pc = "ctor_threw" <=> HasInvalidEntry(inp.format)
           /\ pc # "ctor_threw" => ~HasInvalidEntry(out.m_pack_format)
           /\ out.outside = {}

\* A format with no skip slot and no repeated index.
NoSkipNoRepeat(format) ==
    /\ \A i \in 1 .. Len(format) : format[i] # -1
    /\ \A i, j \in 1 .. Len(format) : i # j => format[i] # format[j]

\* C24: for every format with no skip slot and no repeated index, and every
\* buffer whose length is a multiple of packed_size(), unpack produces
\* colours that a FlatColorPacker of the same format packs back into the
\* same bytes, and both report packed_size() = format length *
\* sizeof(element).
C24_UnpackThenPackRoundTrip ==
    (/\ pc \in {"unpacked", "unpack_trapped", "repacked", "pack_threw"}
     /\ NoSkipNoRepeat(out.m_pack_format)
     /\ ~HasInvalidEntry(out.m_pack_format))
        => /\ pc \notin {"unpack_trapped", "pack_threw"}
           /\ pc = "repacked"
                 => /\ out.repacked = inp.buffer
                    /\ out.packer_size = Len(inp.format) * SizeofElement
                    /\ out.unpacker_size = Len(inp.format) * SizeofElement

\* The channel ch (from zero) of the colour the claim expects from the k-th
\* record of the buffer: the element of the last slot naming the channel,
\* or the default 0 when no slot names it.
ExpectedChannel(format, buffer, k, ch) ==
    LET slots == {i \in 1 .. Len(format) : format[i] = ch}
    IN  IF slots = {} THEN 0
        ELSE LET i == CHOOSE x \in slots : \A y \in slots : y <= x
             IN  LoadElement(buffer, ((k - 1) * Len(format) + (i - 1)) * SizeofElement)

\* C29: for any unpacker, the default-constructed one with the empty format
\* included, and any buffer whose length is a multiple of packed_size(),
\* unpack terminates, writes exactly num_bytes / packed_size() colours in
\* buffer order, each built on a default-constructed colour, and returns
\* src + num_bytes.
C29_UnpackWritesEveryColor ==
    pc \in {"unpacked", "unpack_trapped"}
        => /\ ~out.trapped
           /\ Len(out.colors) * unpacker_packed_size(out.m_pack_format)
                 = Len(inp.buffer)
           /\ \A k \in 1 .. Len(out.colors) : \A ch \in 0 .. num_channels - 1 :
                 out.colors[k][ch + 1]
                     = ExpectedChannel(out.m_pack_format, inp.buffer, k, ch)
           /\ out.ret = Len(inp.buffer)

\* The whole records a stream can still supply from its position, none when
\* it is not good.
RecordsLeft(stream, format) ==
    IF stream.eof \/ stream.fail THEN 0
    ELSE (Len(stream.data) - stream.pos) \div (Len(format) * SizeofElement)

\* The smaller of two counts.
Least(a, b) == IF a < b THEN a ELSE b

\* C25: unpack(n, out) returns the number k <= n of colours unpacked and
\* assigns exactly k colours through out, leaving out one past the last of
\* them; the failing read assigns nothing.  unpack_all() returns a vector
\* of exactly k colours.
C25_UnpackWritesOnlyUnpackedColors ==
    (pc # "start" /\ out.op \in {"unpack", "unpack_all", "unpack_all_vector"})
        => LET k == Least(IF out.op = "unpack" THEN inp.n ELSE StreamsizeMax,
                          RecordsLeft(out.before, out.su.format))
           IN  /\ pc # "crashed"
               /\ out.ret = k
               /\ Len(out.written) = k
               /\ out.out_pos = k

\* The stream can supply one whole record: it is good and holds at least
\* packed_size() bytes from its position on.
CanSupplyRecord(stream, format) ==
    /\ ~stream.eof /\ ~stream.fail
    /\ Len(stream.data) - stream.pos >= Len(format) * SizeofElement

\* C26: unpack_single (operator>>) leaves the caller's colour unmodified
\* when the stream cannot supply packed_size() bytes or the read fails, and
\* the stream then has failbit set, with eofbit when it ran out of bytes;
\* on success the colour is overwritten from exactly those bytes and the
\* stream position advances by packed_size().
C26_FailedReadLeavesColor ==
    (pc # "start" /\ out.op = "unpack_single")
        => LET format == out.su.format
               record == SubSeq(out.before.data, out.before.pos + 1,
                                out.before.pos + Len(format) * SizeofElement)
           IN  /\ pc # "crashed"
               /\ CanSupplyRecord(out.before, format)
                     => /\ \A ch \in 0 .. num_channels - 1 :
                              out.color[ch + 1]
                                  = IF \E i \in 1 .. Len(format) : format[i] = ch
                                    THEN ExpectedChannel(format, record, 1, ch)
                                    ELSE inp.color[ch + 1]
                        /\ out.su.stream.pos
                              = out.before.pos + Len(format) * SizeofElement
                        /\ ~out.su.stream.fail
               /\ ~CanSupplyRecord(out.before, format)
                     => /\ out.color = inp.color
                        /\ out.su.stream.fail
                        /\ (~out.before.eof /\ ~out.before.fail)
                              => out.su.stream.eof

\* C27: a StreamUnpacker constructed from a stream reference unpacks as one
\* that owns its stream: its element buffer holds at least packed_size()
\* bytes, unpack_single does not dereference the empty owned-stream
\* pointer, and the colour and the stream end as they do for the owning
\* unpacker.
C27_ReferenceConstructedUnpacks ==
    (pc # "start" /\ ~out.su.owned)
        => /\ out.su.elem_buffer_size >= Len(out.su.format) * SizeofElement
           /\ pc # "crashed"
           /\ out.op = "unpack_single"
                 => LET owning == su_unpack_single(
                                      stream_unpacker_owning(out.before, out.su.format),
                                      inp.color)
                    IN  /\ out.color = owning.color
                        /\ out.su.stream = owning.su.stream

\* The records of a sequence of colours under a format: for each colour in
\* turn, one element per slot of the format, low byte first.
RECURSIVE RecordsOf(_, _)
RecordsOf(format, colors) ==
    IF colors = <<>> THEN <<>>
    ELSE [k \in 1 .. Len(format) * SizeofElement |->
             LET slot == format[((k - 1) \div SizeofElement) + 1]
                 e == IF slot = -1 THEN 0 ELSE Head(colors)[slot + 1]
             IN  (e \div (256 ^ ((k - 1) % SizeofElement))) % 256]
         \o RecordsOf(format, Tail(colors))

\* C28: after any sequence of pack(first, last) and operator<< calls on a
\* good stream, the stream holds exactly one packed_size()-byte record per
\* colour, in call and iteration order, each the packer's encoding of the
\* colour; release_stream() hands back that stream.
C28_StreamHoldsOneRecordPerColor ==
    (pc # "start" /\ ~inp.failed)
        => /\ pc # "crashed"
           /\ ~out.overflowed
           /\ out.sp.stream.data = RecordsOf(out.sp.format, out.packed)
           /\ Len(out.sp.stream.data)
                 = Len(out.packed) * Len(out.sp.format) * SizeofElement
           /\ pc = "released" => out.released

\* The largest and the smallest of three channels.
LargestChannel(c) == DMax(c[1], DMax(c[2], c[3]))
SmallestChannel(c) == DMin(c[1], DMin(c[2], c[3]))

\* Equality of two values as numbers.
SameValue(x, y) == DLe(x, y) /\ DLe(y, x)

\* The part of the claim that does not depend on rounding: the largest
\* channel is the value, and every channel is in [0, 1].
ChannelsOrdered ==
    /\ SameValue(LargestChannel(out.rgb), inp.c[3])
    /\ \A i \in 1 .. 3 : DLe(DZero, out.rgb[i]) /\ DLe(out.rgb[i], One)

\* Half a unit and two units in the last place of the floats of [1/2, 1).
HalfUlp == [s |-> 1, m |-> <<1>>, e |-> -25]
TwoUlp == [s |-> 1, m |-> <<1>>, e |-> -23]

\* C30 as stated: the largest channel of to_rgb(c) equals value, the
\* smallest equals value * (1 - saturation), every channel is in [0, 1],
\* and chroma(to_rgb(c)) == saturation * value == chroma(c).
C30_ChromaEqualAsStated ==
    pc = "chroma"
        => /\ ChannelsOrdered
           /\ SameValue(SmallestChannel(out.rgb),
                        DMul(inp.c[3], DSub(One, inp.c[2])))
           /\ SameValue(out.chroma_rgb, DMul(inp.c[2], inp.c[3]))
           /\ SameValue(out.chroma_hsv, out.chroma_rgb)

\* C30, amended: the largest channel equals value exactly, the smallest is
\* value * (1 - saturation) rounded to float (within half a unit in the
\* last place of the product), every channel is in [0, 1], and
\* chroma(to_rgb(c)) and chroma(c) agree with saturation * value and with
\* each other to within FLT_EPSILON = 2^-23, not exactly.
C30_ChromaWithinRounding ==
    pc = "chroma"
        => /\ ChannelsOrdered
           /\ Near(SmallestChannel(out.rgb),
                   DMul(inp.c[3], DSub(One, inp.c[2])), HalfUlp)
           /\ Near(out.chroma_rgb, DMul(inp.c[2], inp.c[3]), TwoUlp)
           /\ Near(out.chroma_hsv, DMul(inp.c[2], inp.c[3]), HalfUlp)
           /\ Near(out.chroma_hsv, out.chroma_rgb, TwoUlp)

\* A colour with hue 1 and an inexact saturation and value whose two
\* chromas differ.
C30_Witness ==
    /\ pc = "chroma"
    /\ inp.c[1] = One
    /\ DLt(DZero, inp.c[2]) /\ DLt(inp.c[2], One)
    /\ ~SameValue(out.chroma_hsv, out.chroma_rgb)

====
